---- MODULE Spec2Model ----
(***************************************************************************)
(* ClipMine: the sliding-window index over segment text                    *)
(* (refresh_windows_all), the phrase lookup (fts_hits) and the CU miner    *)
(* (build_first_cu, refine_with_branching, clear_cus) of db_ops.py, with   *)
(* the trigger program cu_trigger.py as their caller.                      *)
(*                                                                         *)
(* A text is a sequence of raw words (the words of the string, split at    *)
(* white space); joining texts by single spaces is concatenation.  The two *)
(* tokenizers of the program are kept apart: the regex _WORD of db_ops.py  *)
(* (word_tokens) and the tokenizer of the FTS5 table (fts_tokens).         *)
(***************************************************************************)
EXTENDS Integers, Sequences, FiniteSets, Bags, TLC

VARIABLES
    segments,         \* table segments: set of [id, transcript_id, start_ms, text]
    concat_by,        \* order in which this build's GROUP_CONCAT visits a group
    fts_windows,      \* table fts_windows, committed rows; index = rowid
    rb,               \* the process running refresh_windows_all
    canonical_units,  \* table canonical_units, committed rows
    cu_occurrences,   \* table cu_occurrences, committed rows
    mn,               \* the process running clear_cus / build_first_cu
    hist,             \* history: the outcome of the first run after a clear
    rf                \* refine_with_branching taken pass by pass

vars == <<segments, concat_by, fts_windows, rb, canonical_units, cu_occurrences, mn,
          hist, rf>>

----------------------------------------------------------------------------
(* Bounds of the model *)

\* rows of canonical_units beyond which no further mining run is started
MaxCUs == 2
\* start offsets 0..MaxStart
MaxStart == 2

\* transcript ids
TIDS == {1, 2, 3}
\* window sizes passed as window_size
KS == {2, 3}
\* thresholds passed as min_tokens
TS == {2, 3}

----------------------------------------------------------------------------
(* Sequences *)

RECURSIVE Flatten(_)
Flatten(ss) == IF ss = <<>> THEN <<>> ELSE Head(ss) \o Flatten(Tail(ss))

Range(s) == {s[x] : x \in DOMAIN s}

SetMin(S) == CHOOSE x \in S : \A y \in S : x <= y
SetMax(S) == CHOOSE x \in S : \A y \in S : x >= y

Min2(a, b) == IF a <= b THEN a ELSE b
Max2(a, b) == IF a >= b THEN a ELSE b

\* tokens[i:i+m] == pattern, 1-based: p occurs in s at position i
OccursAt(p, s, i) ==
    /\ i >= 1
    /\ i + Len(p) - 1 <= Len(s)
    /\ \A x \in 1..Len(p) : s[i + x - 1] = p[x]

Contains(p, s) == \E i \in 1..(Len(s) - Len(p) + 1) : OccursAt(p, s, i)

\* the elements of a finite set of records, ascending in the key f
SortBy(S, LessThan(_, _)) ==
    [x \in 1..Cardinality(S) |->
        CHOOSE r \in S : Cardinality({q \in S : LessThan(q, r)}) = x - 1]

----------------------------------------------------------------------------
(* Tokenizers *)

\* _WORD.findall(w.lower()) on one raw word: runs of [A-Za-z0-9'], lowercased
word_of(w) ==
    CASE w = "A"   -> <<"a">>
      [] w = "a'b" -> <<"a'b">>
      [] w = "--"  -> <<>>
      [] OTHER     -> <<w>>

\* the FTS5 tokenizer on one raw word: runs of letters and digits, case-folded;
\* the apostrophe separates
fts_of(w) ==
    CASE w = "A"   -> <<"a">>
      [] w = "a'b" -> <<"a", "b">>
      [] w = "--"  -> <<>>
      [] OTHER     -> <<w>>

word_tokens(text) == Flatten([x \in DOMAIN text |-> word_of(text[x])])
fts_tokens(text)  == Flatten([x \in DOMAIN text |-> fts_of(text[x])])

good_seed(phrase, min_tokens) == Len(word_tokens(phrase)) >= min_tokens

----------------------------------------------------------------------------
(* Table segments *)

\* ORDER BY start_ms, id
SegBefore(r, q) ==
    \/ r.start_ms < q.start_ms
    \/ r.start_ms = q.start_ms /\ r.id < q.id

IdBefore(r, q) == r.id < q.id

SegsOf(tid) == {r \in segments : r.transcript_id = tid}

\* SELECT ... FROM segments WHERE transcript_id=? ORDER BY start_ms, id
fetch_ordered_segments(tid) == SortBy(SegsOf(tid), SegBefore)

text_join(rows) == Flatten([x \in DOMAIN rows |-> rows[x].text])

----------------------------------------------------------------------------
(* refresh_windows_all: the staging query *)

\* GROUP_CONCAT(o2.text, ' ') carries no ORDER BY: the rows of a group are
\* joined in the order the join visits them, by rn or by id
group_concat(group) ==
    IF concat_by = "rn" THEN text_join(SortBy(group, SegBefore))
    ELSE text_join(SortBy(group, IdBefore))

\* one row of spans: the group of o1.rn = rn, rows rn .. rn+k-1 of ordered
span_row(tid, rn, k) ==
    LET ord   == fetch_ordered_segments(tid)
        group == {ord[x] : x \in rn..(rn + k - 1)}
        ids   == {r.id : r \in group}
    IN  [transcript_id |-> tid,
         seg_start_id  |-> SetMin(ids),
         seg_end_id    |-> SetMax(ids),
         text          |-> group_concat(group)]

\* the spans without the HAVING clause: the groups at the end of a transcript,
\* of fewer than k rows, are kept
spans_without_having(tid, k) ==
    [rn \in 1..Cardinality(SegsOf(tid)) |->
        span_row(tid, rn, Min2(k, Cardinality(SegsOf(tid)) - rn + 1))]

\* HAVING COUNT(*) = k keeps the groups rn = 1 .. n-k+1
spans_of(tid, k) ==
    LET n == Cardinality(SegsOf(tid))
    IN  [rn \in 1..(n - k + 1) |-> span_row(tid, rn, k)]

\* CREATE TEMP TABLE windows_stage AS ... GROUP BY o1.transcript_id, o1.rn
windows_stage(k) == Flatten([tid \in 1..SetMax(TIDS) |-> spans_of(tid, k)])

----------------------------------------------------------------------------
(* refresh_windows_all as run by cu_trigger.main *)

\* pre: the committed rows when the call began; built: the window size of
\* the committed index (0: never built); at: where a failed call raised
RbIdle == [pc |-> "idle", k |-> 0, pre |-> <<>>, stage |-> <<>>, tx |-> <<>>,
           res |-> "none", at |-> "none", built |-> 0]

MinerWrites == mn.pc \in {"write", "clear1", "clear2"}

\* the test of the staged count left out
stage_never_empty(stage) == FALSE

\* cnt == 0
stage_is_empty(stage) == Len(stage) = 0

\* the call is over: it returned ("ok") or raised ("empty", "failed")
RbDone(r, res) == [RbIdle EXCEPT !.pc = "done", !.k = r.k, !.pre = r.pre,
                                 !.res = res, !.built = r.built]

\* BEGIN IMMEDIATE; DROP/CREATE windows_stage; COUNT(*) = 0: ROLLBACK and raise
RefreshStage(k) ==
    /\ rb.pc = "idle"
    /\ ~MinerWrites
    /\ IF stage_is_empty(windows_stage(k))
       THEN rb' = RbDone([rb EXCEPT !.k = k, !.pre = fts_windows], "empty")
       ELSE rb' = [rb EXCEPT !.pc = "staged", !.k = k, !.pre = fts_windows,
                             !.stage = windows_stage(k), !.tx = fts_windows]
    /\ UNCHANGED <<segments, concat_by, fts_windows, canonical_units,
                   cu_occurrences, mn>>

\* a DELETE that removes nothing
rows_kept(tx) == tx

\* the rows of fts_windows in the writer's transaction after the DELETE
rows_after_delete(tx) == <<>>

\* a writer without a transaction: every statement is visible at once
rows_seen_uncommitted(committed, tx) == tx

\* the committed rows, which a reader sees, while the writer's DELETE and
\* INSERT are uncommitted
rows_seen_by_readers(committed, tx) == committed

\* DELETE FROM fts_windows
RefreshDelete ==
    /\ rb.pc = "staged"
    /\ rb' = [rb EXCEPT !.pc = "deleted", !.tx = rows_after_delete(rb.tx)]
    /\ fts_windows' = rows_seen_by_readers(fts_windows, rows_after_delete(rb.tx))
    /\ UNCHANGED <<segments, concat_by, canonical_units, cu_occurrences, mn>>

\* INSERT INTO fts_windows SELECT ... FROM windows_stage
RefreshInsert ==
    /\ rb.pc = "deleted"
    /\ rb' = [rb EXCEPT !.pc = "inserted", !.tx = rb.tx \o rb.stage]
    /\ fts_windows' = rows_seen_by_readers(fts_windows, rb.tx \o rb.stage)
    /\ UNCHANGED <<segments, concat_by, canonical_units, cu_occurrences, mn>>

\* conn.commit()
RefreshCommit ==
    /\ rb.pc = "inserted"
    /\ fts_windows' = rb.tx
    /\ rb' = RbDone([rb EXCEPT !.built = rb.k], "ok")
    /\ UNCHANGED <<segments, concat_by, canonical_units, cu_occurrences, mn>>

\* a statement after BEGIN IMMEDIATE raises: the exception leaves
\* "with get_rw() as conn", which rolls the open transaction back
RefreshFail ==
    /\ rb.pc \in {"staged", "deleted", "inserted"}
    /\ rb' = [RbDone(rb, "failed") EXCEPT !.at = rb.pc]
    /\ UNCHANGED <<segments, concat_by, fts_windows, canonical_units,
                   cu_occurrences, mn>>

\* main goes on to its next step
RefreshReturn ==
    /\ rb.pc = "done"
    /\ rb' = [RbIdle EXCEPT !.built = rb.built]
    /\ UNCHANGED <<segments, concat_by, fts_windows, canonical_units,
                   cu_occurrences, mn>>

----------------------------------------------------------------------------
(* fts_hits *)

\* SELECT rowid, transcript_id, seg_start_id, seg_end_id FROM fts_windows
\* WHERE fts_windows MATCH '"phrase"': the rows whose text holds the phrase's
\* tokens as a run; a phrase without tokens matches no row
fts_hits(rows, phrase) ==
    LET q == fts_tokens(phrase)
    IN  {[rowid |-> x, transcript_id |-> rows[x].transcript_id,
          seg_start_id |-> rows[x].seg_start_id,
          seg_end_id |-> rows[x].seg_end_id] :
            x \in {y \in DOMAIN rows :
                     q # <<>> /\ Contains(q, fts_tokens(rows[y].text))}}

tids_from_hits(hs) == {h.transcript_id : h \in hs}

----------------------------------------------------------------------------
(* refine_with_branching *)

\* min_child_size and max_children_per_side as build_first_cu passes them
MIN_CHILD_SIZE == 1
MAX_CHILDREN_PER_SIDE == 4


\* tokens and t2s of a full transcript, as the first loop of
\* refine_with_branching builds them (positions count from 1)
tokens_with_segmap(ord) ==
    [tokens |-> word_tokens(text_join(ord)),
     t2s    |-> Flatten([x \in DOMAIN ord |->
                   [y \in 1..Len(word_tokens(ord[x].text)) |-> ord[x].id]])]

stream_of(tid) == tokens_with_segmap(fetch_ordered_segments(tid))

\* overlap of the segments under tokens x..x+m-1 with [s_seg, e_seg]
overlap_at(t2s, x, m, s_seg, e_seg) ==
    Min2(SetMax({t2s[y] : y \in x..(x + m - 1)}), e_seg)
      - Max2(SetMin({t2s[y] : y \in x..(x + m - 1)}), s_seg) + 1

\* the occurrence of pattern with the greatest overlap with [s_seg, e_seg],
\* the first of them; <<>> when there is none (best is None)
find_anchor(stream, pattern, s_seg, e_seg) ==
    LET m   == Len(pattern)
        occ == {x \in 1..(Len(stream.tokens) - m + 1) :
                  OccursAt(pattern, stream.tokens, x)}
    IN  IF occ = {} THEN <<>>
        ELSE LET best == CHOOSE x \in occ : \A y \in occ :
                    \/ overlap_at(stream.t2s, y, m, s_seg, e_seg)
                         < overlap_at(stream.t2s, x, m, s_seg, e_seg)
                    \/ /\ overlap_at(stream.t2s, y, m, s_seg, e_seg)
                            = overlap_at(stream.t2s, x, m, s_seg, e_seg)
                       /\ x <= y
             IN  <<best, best + m - 1>>

\* the two ends of a span taken for each other
token_span_reversed(t2s, a) ==
    <<SetMax({t2s[x] : x \in a[1]..a[2]}), SetMin({t2s[x] : x \in a[1]..a[2]})>>

token_span_to_seg_span(t2s, a) ==
    <<SetMin({t2s[x] : x \in a[1]..a[2]}), SetMax({t2s[x] : x \in a[1]..a[2]})>>

SubSeq1(s, lo, hi) == [x \in 1..(hi - lo + 1) |-> s[lo + x - 1]]

\* " ".join(tokens[lo:hi+1])
phrase_at(tokens, a) == SubSeq1(tokens, a[1], a[2])

\* a set of small integers is iterated in ascending order
rep_tid_of(seed_tid, tids) == IF seed_tid \in tids THEN seed_tid ELSE SetMin(tids)

make_child_snapshot(seed_tid, st, tids) ==
    [spans  |-> [t \in tids |->
                   token_span_to_seg_span(st.streams[t].t2s, st.anchors[t])],
     phrase |-> phrase_at(st.streams[rep_tid_of(seed_tid, tids)].tokens,
                          st.anchors[rep_tid_of(seed_tid, tids)])]

\* frozen_outliers.setdefault(tid, anchors[tid][:]) for every tid of S
freeze(frozen, S, anchors) ==
    [t \in (DOMAIN frozen) \cup S |->
        IF t \in DOMAIN frozen THEN frozen[t] ELSE anchors[t]]

proposed_idx(direction, a) == IF direction = "RIGHT" THEN a[2] + 1 ELSE a[1] - 1

\* LEFT moves lo up, dropping the first token of the anchor
advance_inwards(direction, a) ==
    IF direction = "RIGHT" THEN <<a[1], a[2] + 1>> ELSE <<a[1] + 1, a[2]>>

\* anchors[tid][1] += 1 going RIGHT, anchors[tid][0] -= 1 going LEFT
advance(direction, a) ==
    IF direction = "RIGHT" THEN <<a[1], a[2] + 1>> ELSE <<a[1] - 1, a[2]>>

\* nxt_idx < 0 or nxt_idx >= len(tokens)
out_of_stream(direction, st, t) ==
    \/ proposed_idx(direction, st.anchors[t]) < 1
    \/ proposed_idx(direction, st.anchors[t]) > Len(st.streams[t].tokens)

\* the snapshot taken before the first pass and never again
snapshot_once(st) == st

\* keep a fallback snapshot any time we still have >= 2
snapshot(st) ==
    IF Cardinality(st.active) >= 2
    THEN [st EXCEPT !.lma = st.active,
                    !.lms = [t \in st.active |-> st.anchors[t]]]
    ELSE st

\* the proposed token of every active transcript that has one
proposals(direction, st) ==
    [t \in {u \in st.active : ~out_of_stream(direction, st, u)} |->
        st.streams[t].tokens[proposed_idx(direction, st.anchors[t])]]

\* groups[tok] for the token t proposes
group(prop, t) == {u \in DOMAIN prop : prop[u] = prop[t]}

\* one member for each group, in the order the groups were created
heads(prop) == {t \in DOMAIN prop : \A u \in DOMAIN prop : prop[u] = prop[t] => t <= u}

\* the largest group (the first of them), with the seed or without
parent_group_largest(seed_tid, prop) ==
    group(prop, CHOOSE t \in heads(prop) : \A u \in heads(prop) :
            \/ Cardinality(group(prop, u)) < Cardinality(group(prop, t))
            \/ Cardinality(group(prop, u)) = Cardinality(group(prop, t)) /\ t <= u)

\* the group that includes the seed, else the largest one (the first of them)
parent_group(seed_tid, prop) ==
    IF seed_tid \in DOMAIN prop THEN group(prop, seed_tid)
    ELSE group(prop, CHOOSE t \in heads(prop) : \A u \in heads(prop) :
            \/ Cardinality(group(prop, u)) < Cardinality(group(prop, t))
            \/ Cardinality(group(prop, u)) = Cardinality(group(prop, t)) /\ t <= u)

\* every group of size >= min_child_size spawns a child
spawning_uncapped(prop, parent_supporters, min_child_size, max_children_per_side) ==
    SelectSeq(SortBy(heads(prop) \ parent_supporters, <),
              LAMBDA t : Cardinality(group(prop, t)) >= min_child_size)

\* the groups that spawn a child: size >= min_child_size, the first
\* max_children_per_side of them
spawning_with(prop, parent_supporters, min_child_size, max_children_per_side) ==
    SubSeq1(SelectSeq(SortBy(heads(prop) \ parent_supporters, <),
                      LAMBDA t : Cardinality(group(prop, t)) >= min_child_size),
            1,
            Min2(max_children_per_side,
                 Cardinality({t \in heads(prop) \ parent_supporters :
                                Cardinality(group(prop, t)) >= min_child_size})))

\* as build_first_cu calls refine_with_branching
spawning(prop, parent_supporters) ==
    spawning_with(prop, parent_supporters, MIN_CHILD_SIZE, MAX_CHILDREN_PER_SIDE)

\* freeze exhausted non-seed and remove from active
drop_exhausted(st, outs) ==
    [st EXCEPT !.frozen = freeze(st.frozen, outs, st.anchors),
               !.active = st.active \ outs]

\* the other groups dropped and not frozen
spawn_unfrozen(seed_tid, st, prop, heads_spawning, parent_supporters) ==
    [st EXCEPT
        !.children = st.children \o
            [x \in DOMAIN heads_spawning |->
                make_child_snapshot(seed_tid, st, group(prop, heads_spawning[x]))],
        !.active = st.active \ ((DOMAIN prop) \ parent_supporters)]

\* spawn children from the other groups, freeze and drop them
spawn(seed_tid, st, prop, heads_spawning, parent_supporters) ==
    [st EXCEPT
        !.children = st.children \o
            [x \in DOMAIN heads_spawning |->
                make_child_snapshot(seed_tid, st, group(prop, heads_spawning[x]))],
        !.frozen = freeze(st.frozen, (DOMAIN prop) \ parent_supporters, st.anchors),
        !.active = st.active \ ((DOMAIN prop) \ parent_supporters)]

\* the parent advanced however few are left
branch_advance_alone(direction, st, parent_supporters) ==
    [st |-> [st EXCEPT !.anchors =
                [t \in DOMAIN st.anchors |->
                   IF t \in parent_supporters
                   THEN advance(direction, st.anchors[t])
                   ELSE st.anchors[t]]],
     stop |-> FALSE]

\* advance the parent one token, unless fewer than 2 are left
branch_advance(direction, st, parent_supporters) ==
    IF Cardinality(st.active) < 2 THEN [st |-> st, stop |-> TRUE]
    ELSE [st |-> [st EXCEPT !.anchors =
                    [t \in DOMAIN st.anchors |->
                       IF t \in parent_supporters
                       THEN advance(direction, st.anchors[t])
                       ELSE st.anchors[t]]],
          stop |-> FALSE]

branch_split(direction, seed_tid, st, prop, parent_supporters) ==
    branch_advance(direction,
                   spawn(seed_tid, st, prop, spawning(prop, parent_supporters),
                         parent_supporters),
                   parent_supporters)

\* the exhausted transcripts frozen before the seed is looked at
branch_pass_freezes_first(direction, seed_tid, st, outs, prop) ==
    IF seed_tid \in outs
    THEN [st |-> drop_exhausted(st, outs \ {seed_tid}), stop |-> TRUE]
    ELSE IF outs # {} /\ Cardinality(st.active \ outs) < 2
    THEN [st |-> drop_exhausted(st, outs), stop |-> TRUE]
    ELSE IF DOMAIN prop = {} THEN [st |-> drop_exhausted(st, outs), stop |-> TRUE]
    ELSE branch_split(direction, seed_tid, drop_exhausted(st, outs), prop,
                      parent_group(seed_tid, prop))

branch_pass(direction, seed_tid, st, outs, prop) ==
    IF seed_tid \in outs THEN [st |-> st, stop |-> TRUE]
    ELSE IF outs # {} /\ Cardinality(st.active \ outs) < 2
    THEN [st |-> drop_exhausted(st, outs), stop |-> TRUE]
    ELSE IF DOMAIN prop = {} THEN [st |-> drop_exhausted(st, outs), stop |-> TRUE]
    ELSE branch_split(direction, seed_tid, drop_exhausted(st, outs), prop,
                      parent_group(seed_tid, prop))

\* one pass of the "while True" of branch(); stop says the pass left the loop
branch_iter(direction, seed_tid, st) ==
    branch_pass(direction, seed_tid, snapshot(st),
                {t \in st.active : out_of_stream(direction, st, t)},
                proposals(direction, st))

RECURSIVE branch_loop(_, _, _)
branch_loop(direction, seed_tid, r) ==
    IF r.stop THEN r.st
    ELSE branch_loop(direction, seed_tid, branch_iter(direction, seed_tid, r.st))

\* branch(direction, start_active); st.active is start_active
branch(direction, seed_tid, st) ==
    branch_loop(direction, seed_tid, [st |-> st, stop |-> FALSE])

\* fewer than 2 survivors: fall back to the last multi-member snapshot
restore(st) ==
    IF Cardinality(st.active) >= 2 THEN st
    ELSE [st EXCEPT
            !.active  = st.lma,
            !.anchors = [t \in DOMAIN st.anchors |->
                           IF t \in st.lma THEN st.lms[t] ELSE st.anchors[t]],
            !.frozen  = freeze(st.frozen, (DOMAIN st.anchors) \ st.lma,
                               st.anchors)]

\* every member has a next (previous) token, equal or not
can_grow_unequal(direction, streams, a) ==
    \A t \in DOMAIN a :
        /\ proposed_idx(direction, a[t]) >= 1
        /\ proposed_idx(direction, a[t]) <= Len(streams[t].tokens)

\* one pass of a loop of grow_subset: every member has a next (previous)
\* token and they are all equal
can_grow(direction, streams, a) ==
    /\ \A t \in DOMAIN a :
          /\ proposed_idx(direction, a[t]) >= 1
          /\ proposed_idx(direction, a[t]) <= Len(streams[t].tokens)
    /\ \A t, u \in DOMAIN a :
          streams[t].tokens[proposed_idx(direction, a[t])]
            = streams[u].tokens[proposed_idx(direction, a[u])]

RECURSIVE grow(_, _, _)
grow(direction, streams, a) ==
    IF can_grow(direction, streams, a)
    THEN grow(direction, streams, [t \in DOMAIN a |-> advance(direction, a[t])])
    ELSE a

\* final tighten within survivors only (but only if >= 2)
grow_subset(streams, anchors_subset) ==
    IF Cardinality(DOMAIN anchors_subset) < 2 THEN anchors_subset
    ELSE grow("LEFT", streams, grow("RIGHT", streams, anchors_subset))

\* (tuple(sorted(spans.items())), phrase)
fingerprint(spans, phrase) == <<spans, phrase>>

\* de-dup child candidates identical to the parent or to an earlier child
RECURSIVE dedupe(_, _)
dedupe(cands, seen) ==
    IF cands = <<>> THEN <<>>
    ELSE IF /\ DOMAIN Head(cands).spans # {}
            /\ fingerprint(Head(cands).spans, Head(cands).phrase) \notin seen
    THEN <<Head(cands)>> \o
         dedupe(Tail(cands),
                seen \cup {fingerprint(Head(cands).spans, Head(cands).phrase)})
    ELSE dedupe(Tail(cands), seen)

\* streams and anchors as the first loop of refine_with_branching leaves them;
\* an anchor is <<>> where the pattern does not occur
anchored(per_tid_spans, pattern, streams) ==
    [streams  |-> streams,
     anchors  |-> [t \in DOMAIN per_tid_spans |->
                     find_anchor(streams[t], pattern,
                                 per_tid_spans[t][1], per_tid_spans[t][2])],
     active   |-> DOMAIN per_tid_spans,
     frozen   |-> <<>>,
     children |-> <<>>,
     lma      |-> DOMAIN per_tid_spans,
     lms      |-> <<>>]

\* the state of refinement before branch("RIGHT")
refine_start(per_tid_spans, pattern) ==
    [anchored(per_tid_spans, pattern,
              [t \in DOMAIN per_tid_spans |-> stream_of(t)])
       EXCEPT !.lms = [t \in DOMAIN per_tid_spans |->
                         find_anchor(stream_of(t), pattern,
                                     per_tid_spans[t][1], per_tid_spans[t][2])]]

\* the state of refinement after both directions and the fallback restore
refine_expand(seed_tid, st0) ==
    restore(branch("LEFT", seed_tid, branch("RIGHT", seed_tid, st0)))

\* the survivors only
parent_spans_survivors(st, parent_live) ==
    [t \in DOMAIN parent_live |->
        token_span_to_seg_span(st.streams[t].t2s, parent_live[t])]

\* map to segment ranges: the survivors, then the frozen outliers
parent_spans_of(st, parent_live) ==
    [t \in (DOMAIN parent_live) \cup (DOMAIN st.frozen) |->
        IF t \in DOMAIN parent_live
        THEN token_span_to_seg_span(st.streams[t].t2s, parent_live[t])
        ELSE token_span_to_seg_span(st.streams[t].t2s, st.frozen[t])]

\* the children de-duplicated among themselves only
refine_output_among_children(st, parent_spans, parent_phrase) ==
    [kind |-> "refined", spans |-> parent_spans, phrase |-> parent_phrase,
     children |-> dedupe(st.children, {})]

\* the parent and the de-duplicated children
refine_output(st, parent_spans, parent_phrase) ==
    [kind |-> "refined", spans |-> parent_spans, phrase |-> parent_phrase,
     children |-> dedupe(st.children, {fingerprint(parent_spans, parent_phrase)})]

\* the parent phrase read over the seed's anchor before the final tighten
refine_finish_untightened(seed_tid, st, parent_live) ==
    IF seed_tid \notin DOMAIN parent_live
    THEN [kind |-> "KeyError", spans |-> <<>>, phrase |-> <<>>, children |-> <<>>]
    ELSE refine_output(st, parent_spans_of(st, parent_live),
                       phrase_at(st.streams[seed_tid].tokens, st.anchors[seed_tid]))

\* parent_live[seed_tid] raises KeyError when the seed is no survivor
refine_finish(seed_tid, st, parent_live) ==
    IF seed_tid \notin DOMAIN parent_live
    THEN [kind |-> "KeyError", spans |-> <<>>, phrase |-> <<>>, children |-> <<>>]
    ELSE refine_output(st, parent_spans_of(st, parent_live),
                       phrase_at(st.streams[seed_tid].tokens, parent_live[seed_tid]))

\* final tighten of the survivors
parent_live_of(st) ==
    grow_subset(st.streams, [t \in st.active |-> st.anchors[t]])

refine_anchored(per_tid_spans, seed_tid, seed_phrase, st0) ==
    IF \E t \in DOMAIN per_tid_spans : st0.anchors[t] = <<>>
    THEN [kind |-> "fallback", spans |-> per_tid_spans, phrase |-> seed_phrase,
          children |-> <<>>]
    ELSE refine_finish(seed_tid, refine_expand(seed_tid, st0),
                       parent_live_of(refine_expand(seed_tid, st0)))

\* the result (parent_spans, parent_phrase, children); kind tells the three
\* ways out: "fallback" (return per_tid_spans, seed_phrase, []), "KeyError"
\* (parent_live[seed_tid] is missing) and "refined"
refine_with_branching(per_tid_spans, seed_tid, seed_phrase) ==
    IF word_tokens(seed_phrase) = <<>>
    THEN [kind |-> "fallback", spans |-> per_tid_spans, phrase |-> seed_phrase,
          children |-> <<>>]
    ELSE refine_anchored(per_tid_spans, seed_tid, seed_phrase,
                         refine_start(per_tid_spans, word_tokens(seed_phrase)))

----------------------------------------------------------------------------
(* build_first_cu and clear_cus as run by cu_trigger.main *)

\* what a call gave back: kind is "None", "dict" (the summary, in the other
\* fields), "KeyError", "failed" (a write raised) or "cleared"
NoRet == [kind |-> "none", cu_id |-> 0, phrase |-> <<>>, members |-> <<>>,
          children_created |-> 0]

MnIdle == [pc |-> "idle", seed |-> 0, k |-> 0, T |-> 0, i |-> 0, j |-> 0,
           cur_s |-> 0, cur_e |-> 0, phrase |-> <<>>, cur_hits |-> {},
           todo |-> <<>>, tx_cu |-> {}, tx_occ |-> EmptyBag, last_id |-> 0,
           lookups |-> 0, ret |-> NoRet]

RebuildWrites == rb.pc \in {"staged", "deleted", "inserted"}

\* seed_ids: SELECT id FROM segments WHERE transcript_id=? ORDER BY start_ms, id
seed_ids(seed_tid) ==
    LET ord == fetch_ordered_segments(seed_tid)
    IN  [x \in DOMAIN ord |-> ord[x].id]

\* SELECT text FROM segments WHERE transcript_id=? AND id BETWEEN ? AND ?
\* ORDER BY start_ms, id, joined by single spaces
phrase_between(seed_tid, id0, id1) ==
    text_join(SortBy({r \in SegsOf(seed_tid) : id0 <= r.id /\ r.id <= id1},
                     SegBefore))

\* positions count from 1
seed_phrase_for(seed_tid, idx0, idx1) ==
    phrase_between(seed_tid, seed_ids(seed_tid)[idx0], seed_ids(seed_tid)[idx1])

\* the call returns value, or raises; lookups counts its calls of fts_hits
Return(m, value) == [MnIdle EXCEPT !.pc = "done", !.seed = m.seed, !.k = m.k,
                                   !.T = m.T, !.lookups = m.lookups,
                                   !.ret = value]

Ret(kind) == [NoRet EXCEPT !.kind = kind]

\* leave the RIGHT loop when j has run off the seed, then the LEFT loop
after_expand(m) ==
    LET n  == Len(seed_ids(m.seed))
        m1 == IF m.pc = "right" /\ m.j > n
              THEN [m EXCEPT !.pc = "left", !.j = m.i - 1] ELSE m
    IN  IF m1.pc = "left" /\ m1.j < 1 THEN [m1 EXCEPT !.pc = "refine"] ELSE m1

\* the windows loop: "continue" or a failed test moves to i+1; past the last
\* window the function returns None
next_window(m) ==
    IF m.i + 1 > Len(seed_ids(m.seed)) - m.k + 1 THEN Return(m, Ret("None"))
    ELSE [m EXCEPT !.i = m.i + 1]

\* a test that lets a seed of window_size - 1 segments through
seed_too_short_by_two(n, k) == n < k - 1

\* len(seed_ids) < window_size
seed_too_short(n, k) == n < k

\* the seed's segment ids are preloaded; fewer than window_size: return None
\* a preload that raises on a seed shorter than the window
BuildStartRaises(seed_tid, k, T) ==
    /\ mn.pc = "idle"
    /\ Cardinality(canonical_units) < MaxCUs
    /\ LET m == [MnIdle EXCEPT !.seed = seed_tid, !.k = k, !.T = T]
       IN  IF seed_too_short(Len(seed_ids(seed_tid)), k)
           THEN mn' = Return(m, Ret("ValueError"))
           ELSE mn' = [m EXCEPT !.pc = "scan", !.i = 1]
    /\ UNCHANGED <<segments, concat_by, fts_windows, rb, canonical_units,
                   cu_occurrences>>

BuildStart(seed_tid, k, T) ==
    /\ mn.pc = "idle"
    /\ Cardinality(canonical_units) < MaxCUs
    /\ LET m == [MnIdle EXCEPT !.seed = seed_tid, !.k = k, !.T = T]
       IN  IF seed_too_short(Len(seed_ids(seed_tid)), k)
           THEN mn' = Return(m, Ret("None"))
           ELSE mn' = [m EXCEPT !.pc = "scan", !.i = 1]
    /\ UNCHANGED <<segments, concat_by, fts_windows, rb, canonical_units,
                   cu_occurrences>>

\* the window test of build_first_cu
seed_window_accepted(hits, seed_tid) ==
    Cardinality(tids_from_hits(hits)) >= 2 /\ seed_tid \in tids_from_hits(hits)

\* one pass of "for i in range(...)"
BuildScan ==
    /\ mn.pc = "scan"
    /\ LET ids    == seed_ids(mn.seed)
           phrase == seed_phrase_for(mn.seed, mn.i, mn.i + mn.k - 1)
           hits   == fts_hits(fts_windows, phrase)
       IN  IF ~good_seed(phrase, mn.T) THEN mn' = next_window(mn)
           ELSE IF seed_window_accepted(hits, mn.seed)
           THEN mn' = after_expand([mn EXCEPT !.pc = "right",
                                       !.lookups = mn.lookups + 1,
                                       !.j = mn.i + mn.k,
                                       !.cur_s = ids[mn.i],
                                       !.cur_e = ids[mn.i + mn.k - 1],
                                       !.phrase = phrase,
                                       !.cur_hits = hits])
           ELSE mn' = next_window([mn EXCEPT !.lookups = mn.lookups + 1])
    /\ UNCHANGED <<segments, concat_by, fts_windows, rb, canonical_units,
                   cu_occurrences>>

\* the test of an extended candidate
extension_accepted(cand_hits) == Cardinality(tids_from_hits(cand_hits)) >= 2

\* a RIGHT loop that accepts a candidate and looks at the same j again
BuildRightStays ==
    /\ mn.pc = "right"
    /\ LET cand_e    == seed_ids(mn.seed)[mn.j]
           cand_hits == fts_hits(fts_windows,
                                 seed_phrase_for(mn.seed, mn.i, mn.j))
       IN  IF extension_accepted(cand_hits)
           THEN mn' = after_expand([mn EXCEPT !.cur_e = cand_e,
                                       !.lookups = mn.lookups + 1,
                                       !.cur_hits = cand_hits])
           ELSE mn' = after_expand([mn EXCEPT !.pc = "left", !.j = mn.i - 1,
                                       !.lookups = mn.lookups + 1])
    /\ UNCHANGED <<segments, concat_by, fts_windows, rb, canonical_units,
                   cu_occurrences>>

\* one pass of "while j < len(seed_ids)" (expand RIGHT)
BuildRight ==
    /\ mn.pc = "right"
    /\ LET cand_e    == seed_ids(mn.seed)[mn.j]
           cand_hits == fts_hits(fts_windows,
                                 seed_phrase_for(mn.seed, mn.i, mn.j))
       IN  IF extension_accepted(cand_hits)
           THEN mn' = after_expand([mn EXCEPT !.cur_e = cand_e,
                                       !.lookups = mn.lookups + 1,
                                       !.cur_hits = cand_hits, !.j = mn.j + 1])
           ELSE mn' = after_expand([mn EXCEPT !.pc = "left", !.j = mn.i - 1,
                                       !.lookups = mn.lookups + 1])
    /\ UNCHANGED <<segments, concat_by, fts_windows, rb, canonical_units,
                   cu_occurrences>>

\* one pass of "while j >= 0" (expand LEFT)
BuildLeft ==
    /\ mn.pc = "left"
    /\ LET cand_s    == seed_ids(mn.seed)[mn.j]
           cand_hits == fts_hits(fts_windows,
                                 phrase_between(mn.seed, cand_s, mn.cur_e))
       IN  IF extension_accepted(cand_hits)
           THEN mn' = after_expand([mn EXCEPT !.cur_s = cand_s,
                                       !.lookups = mn.lookups + 1,
                                       !.cur_hits = cand_hits, !.j = mn.j - 1])
           ELSE mn' = [mn EXCEPT !.pc = "refine", !.lookups = mn.lookups + 1]
    /\ UNCHANGED <<segments, concat_by, fts_windows, rb, canonical_units,
                   cu_occurrences>>

\* collapse windows to min/max span per transcript
per_tid_of(hits) ==
    [t \in tids_from_hits(hits) |->
        <<SetMin({h.seg_start_id : h \in {g \in hits : g.transcript_id = t}}),
          SetMax({h.seg_end_id : h \in {g \in hits : g.transcript_id = t}})>>]

refined(m) == refine_with_branching(per_tid_of(m.cur_hits), m.seed, m.phrase)

\* an id that does not move on with the inserts
first_cu_id(cu_rows) == 1

\* last_insert_rowid() of an INSERT INTO canonical_units
next_cu_id(cu_rows) ==
    IF cu_rows = {} THEN 1 ELSE SetMax({c.id : c \in cu_rows}) + 1

cu_row(id, phrase) == [id |-> id, rep_text |-> phrase, token_len |-> Len(phrase)]

occ_items(spans) ==
    LET tids == SortBy(DOMAIN spans, <)
    IN  [x \in DOMAIN tids |->
           [kind |-> "occ", transcript_id |-> tids[x],
            segment_start_id |-> spans[tids[x]][1],
            segment_end_id |-> spans[tids[x]][2]]]

child_items(children) ==
    Flatten([x \in DOMAIN children |->
               <<[kind |-> "cu", phrase |-> children[x].phrase]>>
               \o occ_items(children[x].spans)])

\* a write that starts from emptied tables
begin_write_cleared(m, r, id) ==
    [m EXCEPT !.pc = "write",
              !.tx_cu = {cu_row(id, r.phrase)},
              !.tx_occ = EmptyBag,
              !.last_id = id,
              !.todo = occ_items(r.spans) \o child_items(r.children),
              !.ret = [kind |-> "dict", cu_id |-> id, phrase |-> r.phrase,
                       members |-> r.spans,
                       children_created |-> Len(r.children)]]

\* BEGIN IMMEDIATE and the INSERT of the parent row; the inserts still to
\* execute are queued in todo (the rows of one dict by transcript id: a table
\* is a bag of rows, which keeps no trace of the order of its inserts)
begin_write(m, r, id) ==
    [m EXCEPT !.pc = "write",
              !.tx_cu = canonical_units \cup {cu_row(id, r.phrase)},
              !.tx_occ = cu_occurrences,
              !.last_id = id,
              !.todo = occ_items(r.spans) \o child_items(r.children),
              !.ret = [kind |-> "dict", cu_id |-> id, phrase |-> r.phrase,
                       members |-> r.spans,
                       children_created |-> Len(r.children)]]

\* refinement raises KeyError: the call ends before any write
after_refine(m, r) ==
    IF r.kind = "KeyError" THEN Return(m, Ret("KeyError"))
    ELSE begin_write(m, r, next_cu_id(canonical_units))

\* per_tid, the branching token refinement and the start of the write
BuildRefine ==
    /\ mn.pc = "refine"
    /\ ~RebuildWrites
    /\ mn' = after_refine(mn, refined(mn))
    /\ UNCHANGED <<segments, concat_by, fts_windows, rb, canonical_units,
                   cu_occurrences>>

\* the next INSERT of the write transaction
BuildInsert ==
    /\ mn.pc = "write"
    /\ mn.todo # <<>>
    /\ LET it == Head(mn.todo)
       IN  IF it.kind = "cu"
           THEN LET id == next_cu_id(mn.tx_cu)
                IN  mn' = [mn EXCEPT !.tx_cu = @ \cup {cu_row(id, it.phrase)},
                              !.last_id = id, !.todo = Tail(@)]
           ELSE mn' = [mn EXCEPT
                         !.tx_occ = @ (+)
                            SetToBag({[cu_id |-> mn.last_id,
                              transcript_id |-> it.transcript_id,
                              segment_start_id |-> it.segment_start_id,
                              segment_end_id |-> it.segment_end_id]}),
                         !.todo = Tail(@)]
    /\ UNCHANGED <<segments, concat_by, fts_windows, rb, canonical_units,
                   cu_occurrences>>

\* conn_rw.commit() and the return of the summary
BuildCommit ==
    /\ mn.pc = "write"
    /\ mn.todo = <<>>
    /\ canonical_units' = mn.tx_cu
    /\ cu_occurrences' = mn.tx_occ
    /\ mn' = Return(mn, mn.ret)
    /\ UNCHANGED <<segments, concat_by, fts_windows, rb>>

\* a failure whose caller commits what was written so far
BuildFailKeepsWrites ==
    /\ mn.pc = "write"
    /\ canonical_units' = mn.tx_cu
    /\ cu_occurrences' = mn.tx_occ
    /\ mn' = [Return(mn, Ret("failed")) EXCEPT !.todo = mn.todo,
                                               !.last_id = mn.last_id]
    /\ UNCHANGED <<segments, concat_by, fts_windows, rb>>

\* an INSERT or the commit raises: the exception leaves
\* "with get_rw() as conn", which rolls the open transaction back; todo and
\* last_id tell how far the writes had come
BuildFail ==
    /\ mn.pc = "write"
    /\ mn' = [Return(mn, Ret("failed")) EXCEPT !.todo = mn.todo,
                                               !.last_id = mn.last_id]
    /\ UNCHANGED <<segments, concat_by, fts_windows, rb, canonical_units,
                   cu_occurrences>>

\* BEGIN IMMEDIATE; DELETE FROM cu_occurrences
ClearBegin ==
    /\ mn.pc = "idle"
    /\ ~RebuildWrites
    /\ mn' = [MnIdle EXCEPT !.pc = "clear1", !.tx_cu = canonical_units,
                            !.tx_occ = EmptyBag]
    /\ UNCHANGED <<segments, concat_by, fts_windows, rb, canonical_units,
                   cu_occurrences>>

\* a DELETE that removes nothing
units_kept(rows) == rows

\* the rows of canonical_units in the transaction after the DELETE
units_after_delete(rows) == {}

\* DELETE FROM canonical_units
ClearDeleteUnits ==
    /\ mn.pc = "clear1"
    /\ mn' = [mn EXCEPT !.pc = "clear2", !.tx_cu = units_after_delete(mn.tx_cu)]
    /\ UNCHANGED <<segments, concat_by, fts_windows, rb, canonical_units,
                   cu_occurrences>>

\* a failure that leaves the deletions done so far in place
ClearFailKeepsWrites ==
    /\ mn.pc \in {"clear1", "clear2"}
    /\ canonical_units' = mn.tx_cu
    /\ cu_occurrences' = mn.tx_occ
    /\ mn' = [MnIdle EXCEPT !.pc = "done", !.ret = Ret("failed")]
    /\ UNCHANGED <<segments, concat_by, fts_windows, rb>>

\* a statement of the clearing transaction raises: rolled back as above
ClearFail ==
    /\ mn.pc \in {"clear1", "clear2"}
    /\ mn' = [MnIdle EXCEPT !.pc = "done", !.ret = Ret("failed")]
    /\ UNCHANGED <<segments, concat_by, fts_windows, rb, canonical_units,
                   cu_occurrences>>

\* conn_rw.commit()
ClearCommit ==
    /\ mn.pc = "clear2"
    /\ canonical_units' = mn.tx_cu
    /\ cu_occurrences' = mn.tx_occ
    /\ mn' = [MnIdle EXCEPT !.pc = "done", !.ret = Ret("cleared")]
    /\ UNCHANGED <<segments, concat_by, fts_windows, rb>>

\* the call is over (returned, or raised to main); ret told how
MinerReturn ==
    /\ mn.pc = "done"
    /\ mn' = MnIdle
    /\ UNCHANGED <<segments, concat_by, fts_windows, rb, canonical_units,
                   cu_occurrences>>

----------------------------------------------------------------------------
(* The corpus: the state the ingest scripts left in segments *)

\* the texts of a transcript's segments, in the order they were inserted
Shapes ==
    << <<>>,
       << <<"a">>, <<"b">>, <<"c">> >>,
       << <<"a">>, <<"b">>, <<"d">> >>,
       << <<"a">>, <<"b">> >>,
       << <<"c">>, <<"a">>, <<"b">> >>,
       << <<"a", "b">>, <<"c">> >>,
       << <<"a'b">>, <<"c">> >>,
       << <<"a", "b">>, <<"a", "b">> >>,
       << <<"A">>, <<"b">>, <<"c", "--">> >> >>

MaxSlots == SetMax({Len(Shapes[x]) : x \in DOMAIN Shapes})

\* ids grow in insertion order, transcript after transcript
MkSeg(tid, slot, start, text) ==
    [id |-> (tid - 1) * MaxSlots + slot, transcript_id |-> tid,
     start_ms |-> start, text |-> text]

\* a transcript whose segments were inserted in start order
InOrder(tid, shape) ==
    {MkSeg(tid, slot, slot, shape[slot]) : slot \in DOMAIN shape}

\* a transcript whose segments carry the start offsets starts[slot]
Placed(tid, shape, starts) ==
    {MkSeg(tid, slot, starts[slot], shape[slot]) : slot \in DOMAIN shape}

\* corpora of transcripts inserted in start order
OrderedCorpora ==
    {InOrder(1, Shapes[x]) \cup InOrder(2, Shapes[y]) \cup InOrder(3, Shapes[z]) :
        <<x, y, z>> \in {w \in (DOMAIN Shapes) \X (DOMAIN Shapes) \X (DOMAIN Shapes) :
                            w[1] <= w[2] /\ w[2] <= w[3]}}

\* corpora whose transcript 1 has any start offsets, equal ones included
PlacedCorpora ==
    {Placed(1, Shapes[2], starts) \cup InOrder(2, Shapes[2]) \cup InOrder(3, Shapes[z]) :
        starts \in [1..3 -> 0..MaxStart], z \in {1, 6}}

\* no refinement under way
RfIdle == [pc |-> "idle", dir |-> "RIGHT", st |-> <<>>, live |-> <<>>,
           fell |-> FALSE, out |-> <<>>, seen_active |-> {},
           seen_anchors |-> <<>>, froze |-> <<>>,
           min_child_size |-> MIN_CHILD_SIZE,
           max_children_per_side |-> MAX_CHILDREN_PER_SIDE]

\* nothing recorded
NoHist == [fresh |-> FALSE, first |-> <<>>]

Init ==
    /\ \/ segments \in OrderedCorpora /\ concat_by = "rn"
       \/ segments \in PlacedCorpora /\ concat_by \in {"rn", "id"}
    /\ fts_windows = <<>>
    /\ rb = RbIdle
    /\ canonical_units = {}
    /\ cu_occurrences = EmptyBag
    /\ mn = MnIdle
    /\ hist = NoHist
    /\ rf = RfIdle

\* cu_trigger.main runs its steps one after the other on one connection:
\* a call starts when no other call is under way
Next ==
    \/ /\ mn.pc = "idle"
       /\ \E k \in KS : RefreshStage(k)
       /\ UNCHANGED <<hist, rf>>
    \/ RefreshDelete /\ UNCHANGED <<hist, rf>>
    \/ RefreshInsert /\ UNCHANGED <<hist, rf>>
    \/ RefreshCommit /\ UNCHANGED <<hist, rf>>
    \/ RefreshFail /\ UNCHANGED <<hist, rf>>
    \/ RefreshReturn /\ UNCHANGED <<hist, rf>>
    \/ /\ rb.pc = "idle"
       /\ \E seed_tid \in TIDS, k \in KS, T \in TS : BuildStart(seed_tid, k, T)
       /\ UNCHANGED <<hist, rf>>
    \/ BuildScan /\ UNCHANGED <<hist, rf>>
    \/ BuildRight /\ UNCHANGED <<hist, rf>>
    \/ BuildLeft /\ UNCHANGED <<hist, rf>>
    \/ BuildRefine /\ UNCHANGED <<hist, rf>>
    \/ BuildInsert /\ UNCHANGED <<hist, rf>>
    \/ BuildCommit /\ UNCHANGED <<hist, rf>>
    \/ BuildFail /\ UNCHANGED <<hist, rf>>
    \/ /\ rb.pc = "idle"
       /\ ClearBegin
       /\ UNCHANGED <<hist, rf>>
    \/ ClearDeleteUnits /\ UNCHANGED <<hist, rf>>
    \/ ClearCommit /\ UNCHANGED <<hist, rf>>
    \/ ClearFail /\ UNCHANGED <<hist, rf>>
    \/ MinerReturn /\ UNCHANGED <<hist, rf>>

Spec == Init /\ [][Next]_vars

----------------------------------------------------------------------------
(* Runs of the miner over one segment store and one window index *)

\* the CU family in the tables with the ids left out: per CU its phrase, its
\* occurrence ranges, whether it is the parent the call returned, and the
\* number of CUs alike
family_of(cus, occs, parent_id) ==
    LET ranges(id) == {[transcript_id |-> o.transcript_id,
                        segment_start_id |-> o.segment_start_id,
                        segment_end_id |-> o.segment_end_id] :
                          o \in {p \in DOMAIN occs : p.cu_id = id}}
    IN  {[phrase |-> c.rep_text, ranges |-> ranges(c.id),
          parent |-> (c.id = parent_id),
          alike |-> Cardinality({d \in cus : /\ d.rep_text = c.rep_text
                                             /\ ranges(d.id) = ranges(c.id)})] :
            c \in cus}

\* what a finished call of build_first_cu gave
outcome_of(m) ==
    [seed |-> m.seed, k |-> m.k, T |-> m.T, kind |-> m.ret.kind,
     phrase |-> m.ret.phrase,
     family |-> family_of(canonical_units, cu_occurrences, m.ret.cu_id)]

\* the record kept when the call under way returns
hist_at_return ==
    IF mn.ret.kind = "cleared" THEN [hist EXCEPT !.fresh = TRUE]
    ELSE IF mn.ret.kind \in {"None", "dict"} /\ hist.fresh /\ hist.first = <<>>
    THEN [fresh |-> FALSE, first |-> <<[outcome |-> outcome_of(mn)]>>]
    ELSE [hist EXCEPT !.fresh = FALSE]

\* corpora of three transcripts out of four shapes, inserted in start order
TwiceShapes == {2, 3, 4, 5}

TwiceCorpora ==
    {InOrder(1, Shapes[x]) \cup InOrder(2, Shapes[y]) \cup InOrder(3, Shapes[z]) :
        <<x, y, z>> \in {w \in TwiceShapes \X TwiceShapes \X TwiceShapes :
                            w[1] <= w[2] /\ w[2] <= w[3]}}

\* the state after a refresh_windows_all(k) that succeeded, the CU tables
\* empty
InitTwice ==
    /\ segments \in TwiceCorpora
    /\ concat_by = "rn"
    /\ \E k \in KS : /\ fts_windows = windows_stage(k)
                      /\ rb = [RbIdle EXCEPT !.built = k]
    /\ canonical_units = {}
    /\ cu_occurrences = EmptyBag
    /\ mn = MnIdle
    /\ hist = NoHist
    /\ rf = RfIdle

\* clear_cus and build_first_cu called one after the other, the index left
\* as it is
NextTwice ==
    \/ /\ \E seed_tid \in TIDS, k \in KS, T \in TS : BuildStart(seed_tid, k, T)
       /\ UNCHANGED <<hist, rf>>
    \/ BuildScan /\ UNCHANGED <<hist, rf>>
    \/ BuildRight /\ UNCHANGED <<hist, rf>>
    \/ BuildLeft /\ UNCHANGED <<hist, rf>>
    \/ BuildRefine /\ UNCHANGED <<hist, rf>>
    \/ BuildInsert /\ UNCHANGED <<hist, rf>>
    \/ BuildCommit /\ UNCHANGED <<hist, rf>>
    \/ BuildFail /\ UNCHANGED <<hist, rf>>
    \/ ClearBegin /\ UNCHANGED <<hist, rf>>
    \/ ClearDeleteUnits /\ UNCHANGED <<hist, rf>>
    \/ ClearCommit /\ UNCHANGED <<hist, rf>>
    \/ ClearFail /\ UNCHANGED <<hist, rf>>
    \/ MinerReturn /\ hist' = hist_at_return /\ UNCHANGED rf

SpecTwice == InitTwice /\ [][NextTwice]_vars

----------------------------------------------------------------------------
(* The rebuild and the miner as two processes on one store *)

\* corpora of three transcripts out of two shapes, inserted in start order
ConcShapes == {2, 5}

ConcCorpora ==
    {InOrder(1, Shapes[x]) \cup InOrder(2, Shapes[y]) \cup InOrder(3, Shapes[z]) :
        <<x, y, z>> \in {w \in ConcShapes \X ConcShapes \X ConcShapes :
                            w[1] <= w[2] /\ w[2] <= w[3]}}

InitConc ==
    /\ segments \in ConcCorpora
    /\ concat_by = "rn"
    /\ fts_windows = <<>>
    /\ rb = RbIdle
    /\ canonical_units = {}
    /\ cu_occurrences = EmptyBag
    /\ mn = MnIdle
    /\ hist = NoHist
    /\ rf = RfIdle

\* each process takes its steps whenever it can: the miner reads through
\* get_ro() outside any transaction, one SELECT at a time, and only a second
\* BEGIN IMMEDIATE waits for the writer (the guards MinerWrites and
\* RebuildWrites)
NextConc ==
    \/ (\E k \in KS : RefreshStage(k)) /\ UNCHANGED <<hist, rf>>
    \/ RefreshDelete /\ UNCHANGED <<hist, rf>>
    \/ RefreshInsert /\ UNCHANGED <<hist, rf>>
    \/ RefreshCommit /\ UNCHANGED <<hist, rf>>
    \/ RefreshFail /\ UNCHANGED <<hist, rf>>
    \/ RefreshReturn /\ UNCHANGED <<hist, rf>>
    \/ /\ \E seed_tid \in TIDS, k \in KS, T \in TS : BuildStart(seed_tid, k, T)
       /\ UNCHANGED <<hist, rf>>
    \/ BuildScan /\ UNCHANGED <<hist, rf>>
    \/ BuildRight /\ UNCHANGED <<hist, rf>>
    \/ BuildLeft /\ UNCHANGED <<hist, rf>>
    \/ BuildRefine /\ UNCHANGED <<hist, rf>>
    \/ BuildInsert /\ UNCHANGED <<hist, rf>>
    \/ BuildCommit /\ UNCHANGED <<hist, rf>>
    \/ BuildFail /\ UNCHANGED <<hist, rf>>
    \/ ClearBegin /\ UNCHANGED <<hist, rf>>
    \/ ClearDeleteUnits /\ UNCHANGED <<hist, rf>>
    \/ ClearCommit /\ UNCHANGED <<hist, rf>>
    \/ ClearFail /\ UNCHANGED <<hist, rf>>
    \/ MinerReturn /\ UNCHANGED <<hist, rf>>

SpecConc == InitConc /\ [][NextConc]_vars

----------------------------------------------------------------------------
(* refine_with_branching taken one pass of its loops at a time *)

\* a seed of four segments, so that a refinement can move both ways
DeepShape == << <<"w", "c">>, <<"a">>, <<"b">>, <<"y">> >>

\* a transcript that leaves the others after "c a"
ForkShape == << <<"c">>, <<"a">>, <<"d">> >>

\* a seed that outlasts "c a b" to the left only
LongShape == << <<"w">>, <<"c">>, <<"a">>, <<"b">> >>

DeepCorpora ==
    {InOrder(1, Shapes[x]) \cup InOrder(2, shape) \cup InOrder(3, deep) :
        x \in {1, 4, 5, 6},
        shape \in {Shapes[2], Shapes[4], Shapes[5], ForkShape},
        deep \in {DeepShape, LongShape}}

\* the state after a refresh_windows_all(k) that succeeded, the CU tables
\* empty
InitRefine ==
    /\ segments \in OrderedCorpora \cup DeepCorpora
    /\ concat_by = "rn"
    /\ \E k \in KS : /\ fts_windows = windows_stage(k)
                      /\ rb = [RbIdle EXCEPT !.built = k]
    /\ canonical_units = {}
    /\ cu_occurrences = EmptyBag
    /\ mn = MnIdle
    /\ hist = NoHist
    /\ rf = RfIdle

\* nothing handed back for the transcripts
fallback_empty(per_tid_spans, seed_phrase) ==
    [kind |-> "fallback", spans |-> <<>>, phrase |-> seed_phrase,
     children |-> <<>>]

\* what was handed back without refining
fallback_of(per_tid_spans, seed_phrase) ==
    [kind |-> "fallback", spans |-> per_tid_spans, phrase |-> seed_phrase,
     children |-> <<>>]

\* the anchors of the transcripts of S
anchors_of(st, S) == [t \in S |-> st.anchors[t]]

\* the most recent state between two passes in which 2 or more were active
seen_after(f, st) ==
    IF Cardinality(st.active) >= 2
    THEN [f EXCEPT !.seen_active = st.active,
                   !.seen_anchors = anchors_of(st, st.active)]
    ELSE f

\* tokenize, locate the anchors, set up the snapshot
begin_refine(f, per_tid_spans, seed_phrase, st0) ==
    IF \/ word_tokens(seed_phrase) = <<>>
       \/ \E t \in DOMAIN per_tid_spans : st0.anchors[t] = <<>>
    THEN [f EXCEPT !.pc = "finish", !.fell = TRUE,
                   !.out = fallback_of(per_tid_spans, seed_phrase)]
    ELSE seen_after([f EXCEPT !.pc = "branch", !.dir = "RIGHT", !.st = st0],
                    st0)

RefineBegin ==
    /\ mn.pc = "refine"
    /\ rf.pc = "idle"
    /\ rf' = begin_refine(rf, per_tid_of(mn.cur_hits), mn.phrase,
                          refine_start(per_tid_of(mn.cur_hits),
                                       word_tokens(mn.phrase)))
    /\ UNCHANGED <<segments, concat_by, fts_windows, rb, canonical_units,
                   cu_occurrences, mn>>

\* LEFT started with every transcript, frozen or not
after_pass_restarts(f, r) ==
    seen_after(
        [f EXCEPT
           !.st = IF r.stop /\ f.dir = "RIGHT"
                  THEN [r.st EXCEPT !.active = DOMAIN r.st.anchors] ELSE r.st,
           !.dir = IF r.stop THEN "LEFT" ELSE f.dir,
           !.pc = IF r.stop /\ f.dir = "LEFT" THEN "restore" ELSE "branch",
           !.froze = [t \in (DOMAIN f.froze) \cup (f.st.active \ r.st.active) |->
                        IF t \in DOMAIN f.froze THEN f.froze[t]
                        ELSE f.st.anchors[t]]],
        r.st)

\* the state after one pass r of the "while True" of branch(): RIGHT first,
\* then LEFT, carrying only survivors forward; froze keeps, for each
\* transcript a pass took out of active, the anchor it had in that pass
after_pass(f, r) ==
    seen_after(
        [f EXCEPT
           !.st = r.st,
           !.dir = IF r.stop THEN "LEFT" ELSE f.dir,
           !.pc = IF r.stop /\ f.dir = "LEFT" THEN "restore" ELSE "branch",
           !.froze = [t \in (DOMAIN f.froze) \cup (f.st.active \ r.st.active) |->
                        IF t \in DOMAIN f.froze THEN f.froze[t]
                        ELSE f.st.anchors[t]]],
        r.st)

RefineStep ==
    /\ rf.pc = "branch"
    /\ rf' = after_pass(rf, branch_iter(rf.dir, mn.seed, rf.st))
    /\ UNCHANGED <<segments, concat_by, fts_windows, rb, canonical_units,
                   cu_occurrences, mn>>

\* the fallback to the last multi-member snapshot, and parent_live
after_restore(f, st) ==
    [f EXCEPT !.st = st, !.live = anchors_of(st, st.active),
              !.pc = "tighten", !.dir = "RIGHT"]

RefineRestore ==
    /\ rf.pc = "restore"
    /\ rf' = after_restore(rf, restore(rf.st))
    /\ UNCHANGED <<segments, concat_by, fts_windows, rb, canonical_units,
                   cu_occurrences, mn>>

\* grow_subset without its test for a single member
RefineTightenAlone ==
    /\ rf.pc = "tighten"
    /\ rf' = IF can_grow(rf.dir, rf.st.streams, rf.live)
             THEN [rf EXCEPT !.live = [t \in DOMAIN rf.live |->
                                         advance(rf.dir, rf.live[t])]]
             ELSE IF rf.dir = "RIGHT" THEN [rf EXCEPT !.dir = "LEFT"]
             ELSE [rf EXCEPT !.pc = "finish"]
    /\ UNCHANGED <<segments, concat_by, fts_windows, rb, canonical_units,
                   cu_occurrences, mn>>

\* one pass of a loop of grow_subset, or the way out of that loop
RefineTighten ==
    /\ rf.pc = "tighten"
    /\ rf' = IF /\ Cardinality(DOMAIN rf.live) >= 2
                /\ can_grow(rf.dir, rf.st.streams, rf.live)
             THEN [rf EXCEPT !.live = [t \in DOMAIN rf.live |->
                                         advance(rf.dir, rf.live[t])]]
             ELSE IF rf.dir = "RIGHT" THEN [rf EXCEPT !.dir = "LEFT"]
             ELSE [rf EXCEPT !.pc = "finish"]
    /\ UNCHANGED <<segments, concat_by, fts_windows, rb, canonical_units,
                   cu_occurrences, mn>>

\* what refine_with_branching returns (or its KeyError)
result_of(f, seed_tid) ==
    IF f.fell THEN f.out ELSE refine_finish(seed_tid, f.st, f.live)

\* the mapping to segment ranges, the return and the start of the write
finish_refine(f, r) == [f EXCEPT !.pc = "returned", !.out = r]

RefineFinish ==
    /\ rf.pc = "finish"
    /\ ~RebuildWrites
    /\ mn' = after_refine(mn, result_of(rf, mn.seed))
    /\ rf' = finish_refine(rf, result_of(rf, mn.seed))
    /\ UNCHANGED <<segments, concat_by, fts_windows, rb, canonical_units,
                   cu_occurrences>>

\* one call of build_first_cu after the other, the index left as it is
NextRefine ==
    \/ /\ \E seed_tid \in TIDS, k \in KS, T \in TS : BuildStart(seed_tid, k, T)
       /\ UNCHANGED <<hist, rf>>
    \/ BuildScan /\ UNCHANGED <<hist, rf>>
    \/ BuildRight /\ UNCHANGED <<hist, rf>>
    \/ BuildLeft /\ UNCHANGED <<hist, rf>>
    \/ RefineBegin /\ UNCHANGED hist
    \/ RefineStep /\ UNCHANGED hist
    \/ RefineRestore /\ UNCHANGED hist
    \/ RefineTighten /\ UNCHANGED hist
    \/ RefineFinish /\ UNCHANGED hist
    \/ BuildInsert /\ UNCHANGED <<hist, rf>>
    \/ BuildCommit /\ UNCHANGED <<hist, rf>>
    \/ BuildFail /\ UNCHANGED <<hist, rf>>
    \/ MinerReturn /\ rf' = RfIdle /\ UNCHANGED hist

SpecRefine == InitRefine /\ [][NextRefine]_vars

\* the steps of a call that read the tables or walk the token streams
Working ==
    \/ BuildScan /\ UNCHANGED <<hist, rf>>
    \/ BuildRight /\ UNCHANGED <<hist, rf>>
    \/ BuildLeft /\ UNCHANGED <<hist, rf>>
    \/ RefineBegin /\ UNCHANGED hist
    \/ RefineStep /\ UNCHANGED hist

\* where a call is when one of those steps is its next one
at_work ==
    \/ mn.pc \in {"scan", "right", "left"}
    \/ mn.pc = "refine" /\ rf.pc \in {"idle", "branch"}

\* The miner is one synchronous thread: a call that has started keeps
\* running until it returns or raises, so no step of it stays due for ever.
\* For the steps of Working, which are possible exactly where at_work holds,
\* weak fairness is written out with at_work in the place of ENABLED.
SpecRefineLive ==
    /\ InitRefine
    /\ [][NextRefine]_vars
    /\ ([]<>(~at_work) \/ []<><<Working>>_vars)
    /\ WF_vars(RefineRestore /\ UNCHANGED hist)
    /\ WF_vars(RefineTighten /\ UNCHANGED hist)
    /\ WF_vars(RefineFinish /\ UNCHANGED hist)
    /\ WF_vars(BuildInsert /\ UNCHANGED <<hist, rf>>)
    /\ WF_vars(BuildCommit /\ UNCHANGED <<hist, rf>>)

----------------------------------------------------------------------------
(* grow_subset, for any set of survivors *)

\* the pattern the survivors are anchored on
TightenPattern == <<"a", "b">>

\* the transcripts whose token stream holds the pattern
holding(pattern) ==
    {t \in TIDS : \E x \in 1..Len(stream_of(t).tokens) :
                     OccursAt(pattern, stream_of(t).tokens, x)}

\* all the segments of a transcript, as a span
whole_span(tid) ==
    <<SetMin({r.id : r \in SegsOf(tid)}), SetMax({r.id : r \in SegsOf(tid)})>>

\* parent_live = {tid: anchors[tid][:] for tid in survivors}, before
\* grow_subset: every transcript of P anchored on the pattern, S the survivors
tighten_start(P, S, pattern) ==
    [RfIdle EXCEPT
       !.pc = "tighten", !.dir = "RIGHT",
       !.st = [refine_start([t \in P |-> whole_span(t)], pattern)
                 EXCEPT !.active = S],
       !.live = [t \in S |->
                   find_anchor(stream_of(t), pattern,
                               whole_span(t)[1], whole_span(t)[2])]]

InitTighten ==
    /\ segments \in TwiceCorpora \cup DeepCorpora
    /\ concat_by = "rn"
    /\ fts_windows = windows_stage(2)
    /\ rb = [RbIdle EXCEPT !.built = 2]
    /\ canonical_units = {}
    /\ cu_occurrences = EmptyBag
    /\ hist = NoHist
    /\ \E S \in (SUBSET holding(TightenPattern)) \ {{}} :
          /\ mn = [MnIdle EXCEPT !.pc = "refine", !.seed = SetMin(S), !.k = 2,
                                 !.T = 2]
          /\ rf = tighten_start(holding(TightenPattern), S, TightenPattern)

NextTighten == RefineTighten /\ UNCHANGED hist

SpecTighten == InitTighten /\ [][NextTighten]_vars

----------------------------------------------------------------------------
(* The de-duplication of the child candidates, for any list of candidates *)

\* the longest list of candidates
MaxCands == 3

\* spans over the first two segments of transcripts 1 and 2; the empty dict
CandSpans ==
    {<<>>, [t \in {1} |-> <<1, 2>>], [t \in {2} |-> <<4, 5>>],
     [t \in {1, 2} |-> <<3 * t - 2, 3 * t - 1>>]}

CandPhrases == {<<"a">>, <<"a", "b">>}

Candidates == {[spans |-> sp, phrase |-> ph] : sp \in CandSpans, ph \in CandPhrases}

CandidateLists == UNION {[1..n -> Candidates] : n \in 0..MaxCands}

\* parent_spans and parent_phrase are computed, child_candidates is complete
InitDedupe ==
    /\ segments = {}
    /\ concat_by = "rn"
    /\ fts_windows = <<>>
    /\ rb = RbIdle
    /\ canonical_units = {}
    /\ cu_occurrences = EmptyBag
    /\ mn = [MnIdle EXCEPT !.pc = "refine", !.seed = 1]
    /\ hist = NoHist
    /\ \E cands \in CandidateLists, parent_phrase \in CandPhrases :
          rf = [RfIdle EXCEPT
                  !.pc = "dedupe",
                  !.st = [children |-> cands],
                  !.out = [kind |-> "refined",
                           spans |-> [t \in {1, 2} |-> <<3 * t - 2, 3 * t - 1>>],
                           phrase |-> parent_phrase, children |-> <<>>]]

\* de-dup child candidates identical to parent, and return
DedupeStep ==
    /\ rf.pc = "dedupe"
    /\ rf' = finish_refine(rf, refine_output(rf.st, rf.out.spans, rf.out.phrase))
    /\ UNCHANGED <<segments, concat_by, fts_windows, rb, canonical_units,
                   cu_occurrences, mn>>

NextDedupe == DedupeStep /\ UNCHANGED hist

SpecDedupe == InitDedupe /\ [][NextDedupe]_vars

----------------------------------------------------------------------------
(* The spawn loop of a pass of branch(), for any min_child_size and
   max_children_per_side *)

\* the transcripts of a pass and the tokens they may propose
MaxGroupTids == 6

NextTokens == {"c", "d", "e", "f"}

\* refinement anchored on "a b" in every transcript, each with one more
\* token, next[t], in a segment of its own
anchored_with(next) ==
    [streams  |-> [t \in DOMAIN next |->
                     [tokens |-> <<"a", "b", next[t]>>,
                      t2s    |-> <<MkSeg(t, 1, 1, <<>>).id,
                                   MkSeg(t, 2, 2, <<>>).id,
                                   MkSeg(t, 3, 3, <<>>).id>>]],
     anchors  |-> [t \in DOMAIN next |-> <<1, 2>>],
     active   |-> DOMAIN next,
     frozen   |-> <<>>,
     children |-> <<>>,
     lma      |-> DOMAIN next,
     lms      |-> [t \in DOMAIN next |-> <<1, 2>>]]

\* a pass to the RIGHT has collected its groups; the seed is transcript 1
InitChildren ==
    /\ segments = {}
    /\ concat_by = "rn"
    /\ fts_windows = <<>>
    /\ rb = RbIdle
    /\ canonical_units = {}
    /\ cu_occurrences = EmptyBag
    /\ mn = [MnIdle EXCEPT !.pc = "refine", !.seed = 1]
    /\ hist = NoHist
    /\ \E next \in [1..MaxGroupTids -> NextTokens],
          min_child_size \in {1, 2}, max_children_per_side \in {1, 2, 4} :
          rf = [RfIdle EXCEPT !.pc = "groups", !.dir = "RIGHT",
                              !.st = anchored_with(next),
                              !.min_child_size = min_child_size,
                              !.max_children_per_side = max_children_per_side]

\* choose the parent group, spawn children from the other groups, freeze and
\* drop them
spawn_pass(seed_tid, st, prop, parent_supporters, min_child_size, max_children_per_side) ==
    spawn(seed_tid, st, prop,
          spawning_with(prop, parent_supporters, min_child_size,
                        max_children_per_side),
          parent_supporters)

SpawnPass ==
    /\ rf.pc = "groups"
    /\ rf' = [rf EXCEPT
                !.pc = "spawned",
                !.st = spawn_pass(mn.seed, rf.st, proposals(rf.dir, rf.st),
                                  parent_group(mn.seed, proposals(rf.dir, rf.st)),
                                  rf.min_child_size, rf.max_children_per_side)]
    /\ UNCHANGED <<segments, concat_by, fts_windows, rb, canonical_units,
                   cu_occurrences, mn>>

NextChildren == SpawnPass /\ UNCHANGED hist

SpecChildren == InitChildren /\ [][NextChildren]_vars

----------------------------------------------------------------------------
(* The window index *)

\* C1: during and after any call of refresh_windows_all the committed rows
\* of fts_windows, which are what a reader sees, are the rows from before the
\* call until the call commits, and the complete set of windows derived from
\* segments once it has; a call that raised (empty staging, or a failure
\* before the commit) leaves the rows from before the call.  No partial row
\* set is ever visible.
C1_RebuildIsAtomic ==
    /\ rb.pc \in {"staged", "deleted", "inserted"} => fts_windows = rb.pre
    /\ rb.pc = "done" /\ rb.res = "ok" => fts_windows = windows_stage(rb.k)
    /\ rb.pc = "done" /\ rb.res \in {"empty", "failed"} => fts_windows = rb.pre

\* a call failed between its DELETE and its INSERT, and the rows of a former
\* rebuild, which differ from the windows it staged, are all there
C1_Witness ==
    /\ rb.pc = "done" /\ rb.res = "failed" /\ rb.at = "deleted"
    /\ rb.pre # <<>> /\ rb.pre # windows_stage(rb.k)
    /\ fts_windows = rb.pre

\* C2: a call of refresh_windows_all(k) whose staging is empty (an empty
\* corpus, or no transcript of at least k segments) ends by raising the
\* empty-staging error without having deleted or inserted a row, and
\* fts_windows holds the rows it held before the call.
C2_EmptyStagingRefused ==
    (rb.pc # "idle" /\ windows_stage(rb.k) = <<>>) =>
        /\ rb.pc = "done" /\ rb.res = "empty"
        /\ fts_windows = rb.pre

\* the call was refused while an index of a smaller window size was in place
C2_Witness ==
    /\ rb.pc = "done" /\ rb.res = "empty"
    /\ rb.pre # <<>> /\ fts_windows = rb.pre

\* the windows as the specification describes them: for every run of k
\* segments consecutive in (start_ms, id) order the ids of its first and its
\* last segment and the texts joined in that order
run_window(tid, rn, k) ==
    [transcript_id |-> tid,
     seg_start_id  |-> fetch_ordered_segments(tid)[rn].id,
     seg_end_id    |-> fetch_ordered_segments(tid)[rn + k - 1].id,
     text          |-> text_join(SubSeq1(fetch_ordered_segments(tid), rn, rn + k - 1))]

run_windows(k) ==
    UNION {{run_window(tid, rn, k) : rn \in 1..(Cardinality(SegsOf(tid)) - k + 1)} :
              tid \in TIDS}

\* C3: after a successful refresh_windows_all(k), fts_windows has exactly one
\* row for every run of k segments consecutive in (start_ms, id) order, with
\* the id of the run's first segment, the id of its last segment and the
\* run's texts joined in that order, and no other row, whatever ids and
\* start_ms the segments have.
C3_WindowsAreTheRuns ==
    (rb.pc = "done" /\ rb.res = "ok") =>
        /\ Range(fts_windows) = run_windows(rb.k)
        /\ Len(fts_windows) = Cardinality(run_windows(rb.k))

\* the rows of a table with the number of copies of each
RowBag(rows) ==
    [r \in Range(rows) |-> Cardinality({x \in DOMAIN rows : rows[x] = r})]

\* C4: with segments unchanged, a refresh_windows_all(k) that commits over an
\* index built with the same k leaves fts_windows with the same rows as the
\* first call left.
C4_RebuildTwiceSameRows ==
    [][(rb.pc = "inserted" /\ rb.built = rb.k /\ rb'.pc = "done"
            /\ rb'.res = "ok")
        => RowBag(fts_windows') = RowBag(fts_windows)]_vars

\* the second of two rebuilds with the same window size has committed
C4_Witness ==
    /\ rb.pc = "done" /\ rb.res = "ok"
    /\ rb.pre # <<>> /\ RowBag(rb.pre) = RowBag(windows_stage(rb.k))
    /\ RowBag(fts_windows) = RowBag(rb.pre)

\* C5: once an index of window size k is committed, a transcript of fewer
\* than k segments has no row in fts_windows, is in no lookup result, is
\* given no occurrence by a mining run, and a mining run seeded with it
\* accepts no window and builds no CU.
C5_ShortTranscriptsStayOut ==
    \A t \in TIDS : Cardinality(SegsOf(t)) < rb.built =>
        /\ \A x \in DOMAIN fts_windows : fts_windows[x].transcript_id # t
        /\ t \notin tids_from_hits(mn.cur_hits)
        /\ \A x \in DOMAIN mn.todo :
              mn.todo[x].kind = "occ" => mn.todo[x].transcript_id # t
        /\ mn.seed = t =>
              /\ mn.pc \notin {"right", "left", "refine", "write"}
              /\ mn.ret.kind # "dict"

\* a run seeded with a transcript of two segments, whose text two other
\* windows hold, found nothing in an index of window size 3
C5_Witness ==
    /\ rb.built = 3
    /\ mn.pc = "done" /\ mn.ret.kind = "None" /\ mn.k = 2 /\ mn.T = 2
    /\ Cardinality(SegsOf(mn.seed)) = 2
    /\ Cardinality(tids_from_hits(fts_hits(fts_windows,
          text_join(fetch_ordered_segments(mn.seed))))) >= 2

----------------------------------------------------------------------------
(* The CU store *)

\* the rows of cu_occurrences, each once
occurrence_rows == DOMAIN cu_occurrences

\* the transcripts in which CU id has an occurrence
transcripts_of(id) == {o.transcript_id : o \in {p \in occurrence_rows : p.cu_id = id}}

\* the word tokens of the segments s..e of transcript tid
occurrence_tokens(tid, s, e) == word_tokens(phrase_between(tid, s, e))

\* C6: after any sequence of build_first_cu and clear_cus calls every row of
\* canonical_units, parent or child, has occurrences in at least two distinct
\* transcripts; a transcript that diverges alone gives no child CU.
C6_EveryCUInTwoTranscripts ==
    \A c \in canonical_units : Cardinality(transcripts_of(c.id)) >= 2

\* C7: for every persisted CU and every one of its occurrences, the word
\* tokens of the occurrence's segments contain the CU's tokenized phrase as a
\* contiguous run.
C7_OccurrenceHoldsPhrase ==
    \A c \in canonical_units : \A o \in occurrence_rows :
        o.cu_id = c.id =>
            Contains(word_tokens(c.rep_text),
                     occurrence_tokens(o.transcript_id, o.segment_start_id,
                                       o.segment_end_id))

\* C8: the two endpoints of every persisted occurrence are ids of segments of
\* the occurrence's transcript, the first not greater than the second.
C8_OccurrenceEndpoints ==
    \A o \in occurrence_rows :
        /\ o.segment_start_id \in {r.id : r \in SegsOf(o.transcript_id)}
        /\ o.segment_end_id \in {r.id : r \in SegsOf(o.transcript_id)}
        /\ o.segment_start_id <= o.segment_end_id

\* a persisted occurrence of a refined CU spans several segments
C8_Witness ==
    \E o \in occurrence_rows : \E c \in canonical_units :
        /\ c.id = o.cu_id
        /\ o.segment_start_id < o.segment_end_id
        /\ c.token_len > 2

\* C9: after any sequence of mining runs cu_occurrences holds at most one row
\* for a CU and a transcript.
C9_OneOccurrencePerTranscript ==
    \A o \in occurrence_rows :
        /\ cu_occurrences[o] = 1
        /\ \A p \in occurrence_rows :
              (p.cu_id = o.cu_id /\ p.transcript_id = o.transcript_id) => p = o

\* the places where pattern occurs in the tokens of transcript tid
places(tid, pattern) ==
    {x \in 1..Len(stream_of(tid).tokens) :
        OccursAt(pattern, stream_of(tid).tokens, x)}

\* a CU has its one occurrence in a transcript that holds its phrase twice
C9_Witness ==
    \E o \in occurrence_rows : \E c \in canonical_units :
        /\ c.id = o.cu_id
        /\ Cardinality(places(o.transcript_id, word_tokens(c.rep_text))) >= 2

\* C10: from BEGIN IMMEDIATE on, the committed rows of canonical_units and
\* cu_occurrences stay as they were before the call unless the call commits,
\* and then the parent row, all its occurrences and all its children with
\* their occurrences are committed together; a failed insert leaves the
\* rows from before the call.
C10_WriteIsAllOrNothing ==
    [][mn.pc = "write" =>
         IF mn'.pc = "done" /\ mn'.ret.kind = "dict"
         THEN /\ canonical_units \subseteq canonical_units'
              /\ Cardinality(canonical_units' \ canonical_units)
                    = 1 + mn'.ret.children_created
              /\ \A t \in DOMAIN mn'.ret.members :
                    BagIn([cu_id |-> mn'.ret.cu_id, transcript_id |-> t,
                           segment_start_id |-> mn'.ret.members[t][1],
                           segment_end_id |-> mn'.ret.members[t][2]],
                          cu_occurrences')
              /\ \A c \in canonical_units' \ canonical_units :
                    \E o \in DOMAIN cu_occurrences' : o.cu_id = c.id
         ELSE UNCHANGED <<canonical_units, cu_occurrences>>]_vars

\* a run failed after it had inserted its parent row and a child row, and
\* the store holds the rows of a former run and none of the failed one
C10_Witness ==
    /\ mn.pc = "done" /\ mn.ret.kind = "failed"
    /\ mn.todo # <<>>
    /\ canonical_units # {}
    /\ mn.last_id > next_cu_id(canonical_units)

----------------------------------------------------------------------------
(* The mining run *)

\* C11: a build_first_cu call whose seed transcript has fewer than
\* window_size segments returns None at once, and the step that starts and
\* ends it leaves canonical_units and cu_occurrences as they were.
C11_ShortSeedReturnsNone ==
    [][(mn'.seed # 0 /\ Cardinality(SegsOf(mn'.seed)) < mn'.k) =>
          /\ mn'.pc = "done" /\ mn'.ret.kind = "None"
          /\ mn'.tx_cu = {} /\ mn'.tx_occ = EmptyBag
          /\ UNCHANGED <<canonical_units, cu_occurrences>>]_vars

\* a call with window_size 3 on a seed of two segments returned None while
\* the store held the rows of a former run
C11_Witness ==
    /\ mn.pc = "done" /\ mn.ret.kind = "None" /\ mn.k = 3
    /\ Cardinality(SegsOf(mn.seed)) = 2
    /\ canonical_units # {} /\ cu_occurrences # EmptyBag

\* the text of the i-th window of k segments of the seed in (start_ms, id)
\* order
window_text(seed_tid, i, k) ==
    text_join(SubSeq1(fetch_ordered_segments(seed_tid), i, i + k - 1))

\* the transcripts with a row of fts_windows that holds the phrase
transcripts_holding(phrase) ==
    {fts_windows[x].transcript_id :
        x \in {y \in DOMAIN fts_windows :
                 /\ fts_tokens(phrase) # <<>>
                 /\ Contains(fts_tokens(phrase), fts_tokens(fts_windows[y].text))}}

\* window i of the seed has at least T word tokens and a phrase lookup finds
\* it in the seed and in another transcript
window_qualifies(seed_tid, i, k, T) ==
    /\ Len(word_tokens(window_text(seed_tid, i, k))) >= T
    /\ seed_tid \in transcripts_holding(window_text(seed_tid, i, k))
    /\ Cardinality(transcripts_holding(window_text(seed_tid, i, k))) >= 2

no_window_qualifies(seed_tid, k, T) ==
    \A i \in 1..(Cardinality(SegsOf(seed_tid)) - k + 1) :
        ~window_qualifies(seed_tid, i, k, T)

\* a call none of whose windows qualifies scans and returns None
C12_scan_only ==
    (mn.seed # 0 /\ no_window_qualifies(mn.seed, mn.k, mn.T)) =>
        /\ mn.pc \in {"scan", "done"}
        /\ mn.pc = "done" => mn.ret.kind = "None"

\* a step before persistence writes nothing
C12_no_write ==
    mn.pc \in {"scan", "right", "left"} =>
        /\ UNCHANGED <<canonical_units, cu_occurrences>>
        /\ mn'.tx_cu = {} /\ mn'.tx_occ = EmptyBag

\* C12: when no seed window has at least T word tokens, or none that has is
\* found by the lookup in the seed and in another transcript, build_first_cu
\* returns None without raising and leaves canonical_units and
\* cu_occurrences unchanged; no step before the write transaction writes.
C12_NothingFoundNothingWritten ==
    []C12_scan_only /\ [][C12_no_write]_vars

\* C13: a seed window is skipped without a lookup when it has T - 1 word
\* tokens or fewer, and it is looked up when it has T or more.
C13_ThresholdDecidesLookup ==
    [][(mn.pc = "scan" /\ mn' # mn) =>
          IF Len(word_tokens(window_text(mn.seed, mn.i, mn.k))) <= mn.T - 1
          THEN mn'.lookups = mn.lookups
          ELSE mn'.lookups = mn.lookups + 1]_vars

\* the window a call has accepted is the first one of the seed that
\* qualifies
C14_first_qualifying ==
    mn.pc \in {"right", "left", "refine", "write"} =>
        /\ window_qualifies(mn.seed, mn.i, mn.k, mn.T)
        /\ \A x \in 1..(mn.i - 1) : ~window_qualifies(mn.seed, x, mn.k, mn.T)

\* the scan goes from one window to the next, an accepted window stays, and
\* the write ends the call
C14_scan_in_order ==
    /\ (mn.pc = "scan" /\ mn'.pc = "scan") => mn'.i = mn.i + 1
    /\ (mn.pc = "scan" /\ mn'.pc \notin {"scan", "done"}) => mn'.i = mn.i
    /\ (mn.pc \in {"right", "left", "refine", "write"}) =>
          \/ mn'.pc \in {"right", "left", "refine", "write"} /\ mn'.i = mn.i
          \/ mn'.pc = "done"
    /\ mn.pc = "write" => mn'.pc \in {"write", "done"}

\* C14: build_first_cu examines the seed windows in increasing index of the
\* seed's (start_ms, id) order; the parent it persists comes from the window
\* of smallest index that has at least T word tokens and whose lookup holds
\* the seed and another transcript; after accepting it the call examines no
\* later window and creates at most one parent.
C14_FirstQualifyingWindow ==
    []C14_first_qualifying /\ [][C14_scan_in_order]_vars

\* C15: over one segment store and one window index, two runs of clear_cus
\* followed by build_first_cu with the same seed, k and T give the same
\* parent phrase, the same child phrases and the same occurrence ranges for
\* each CU; only the CU ids may differ.
C15_ClearedRunsAgree ==
    (/\ mn.pc = "done" /\ mn.ret.kind \in {"None", "dict"}
     /\ hist.fresh /\ hist.first # <<>>
     /\ hist.first[1].outcome.seed = mn.seed
     /\ hist.first[1].outcome.k = mn.k
     /\ hist.first[1].outcome.T = mn.T)
        => outcome_of(mn) = hist.first[1].outcome

\* a second run after a clear wrote a parent and a child, as the first did
C15_Witness ==
    /\ mn.pc = "done" /\ mn.ret.kind = "dict" /\ mn.ret.children_created >= 1
    /\ hist.fresh /\ hist.first # <<>>
    /\ hist.first[1].outcome.seed = mn.seed
    /\ hist.first[1].outcome.k = mn.k
    /\ hist.first[1].outcome.T = mn.T
    /\ outcome_of(mn) = hist.first[1].outcome

\* C16: a new mining run clears both CU tables first: when build_first_cu
\* inserts its parent CU, canonical_units and cu_occurrences hold no row of
\* an earlier run, so the tables only ever hold the family of the latest run.
C16_RunStartsFromEmptyTables ==
    mn.pc = "write" => canonical_units = {} /\ cu_occurrences = EmptyBag

\* C16 (amended): build_first_cu deletes nothing: the commit of its write
\* keeps every row the tables held and adds the rows of the new family, whose
\* CU ids are the returned cu_id and above; the tables are emptied only by
\* clear_cus (the --clear option), whose commit leaves both empty.
C16_RunKeepsEarlierRows ==
    [][/\ (mn.pc = "write" /\ mn'.pc = "done" /\ mn'.ret.kind = "dict") =>
            /\ canonical_units \subseteq canonical_units'
            /\ cu_occurrences \sqsubseteq cu_occurrences'
            /\ \A c \in canonical_units' \ canonical_units :
                  c.id >= mn'.ret.cu_id
            /\ \A c \in canonical_units : c.id < mn'.ret.cu_id
       /\ (mn.pc \in {"scan", "right", "left", "refine", "write"}
              /\ ~(mn'.pc = "done" /\ mn'.ret.kind = "dict")) =>
            UNCHANGED <<canonical_units, cu_occurrences>>
       /\ (mn'.pc = "done" /\ mn'.ret.kind = "cleared") =>
            canonical_units' = {} /\ cu_occurrences' = EmptyBag]_vars

\* a run without a clear before it has returned, and the tables hold its
\* family and a CU of an earlier run with its occurrences
C16_Witness ==
    /\ mn.pc = "done" /\ mn.ret.kind = "dict"
    /\ \E c \in canonical_units :
          /\ c.id < mn.ret.cu_id
          /\ \E o \in occurrence_rows : o.cu_id = c.id
    /\ \E o \in occurrence_rows : o.cu_id = mn.ret.cu_id

\* a clear that has committed left both tables empty, and every committed
\* occurrence row has its CU row
C17_committed ==
    /\ (mn.pc = "done" /\ mn.ret.kind = "cleared") =>
          canonical_units = {} /\ cu_occurrences = EmptyBag
    /\ \A o \in occurrence_rows : \E c \in canonical_units : c.id = o.cu_id

\* a step of the clearing transaction leaves the committed tables as they
\* are or empties both
C17_both_or_none ==
    mn.pc \in {"clear1", "clear2"} =>
        \/ UNCHANGED <<canonical_units, cu_occurrences>>
        \/ /\ canonical_units' = {} /\ cu_occurrences' = EmptyBag
           /\ mn'.ret.kind = "cleared"

\* C17: after clear_cus commits, canonical_units and cu_occurrences are both
\* empty; the two deletions are one transaction, so no committed state has
\* one table cleared and not the other, and none holds an occurrence row
\* whose CU row is missing.
C17_ClearIsOneTransaction ==
    []C17_committed /\ [][C17_both_or_none]_vars

\* the clearing transaction has deleted from both tables and not committed:
\* the committed tables still hold their rows
C17_Witness ==
    /\ mn.pc = "clear2" /\ mn.tx_cu = {} /\ mn.tx_occ = EmptyBag
    /\ canonical_units # {} /\ cu_occurrences # EmptyBag

\* C18: no window-index rebuild commits between two phrase lookups of one
\* build_first_cu call running beside it: from the first lookup of a call to
\* its last, fts_windows stays the same row set.
C18_NoRebuildBetweenLookups ==
    [][(mn.pc \in {"scan", "right", "left"} /\ mn.lookups >= 1) =>
          fts_windows' = fts_windows]_vars

----------------------------------------------------------------------------
(* The refinement *)

\* C19: a group of matched transcripts that shares only a shorter phrase than
\* the parent gives one child CU with that phrase, and the child's
\* occurrences cover every matched transcript that holds the shorter phrase:
\* the diverging group and the parent's members.
C19_ChildCoversAllSharers ==
    (mn.pc = "done" /\ mn.ret.kind = "dict") =>
        \A c \in canonical_units :
            c.id > mn.ret.cu_id =>
                \A t \in DOMAIN mn.ret.members :
                    places(t, word_tokens(c.rep_text)) # {} =>
                        t \in transcripts_of(c.id)

\* the places in transcript tid where pattern lies over the segments s..e
anchored_places(tid, pattern, s, e) ==
    {x \in places(tid, pattern) :
        /\ stream_of(tid).t2s[x] = s
        /\ stream_of(tid).t2s[x + Len(pattern) - 1] = e}

\* the phrase with the token after it (d = 1) or before it (d = -1) occurs
\* at its place in the seed and at its place in another member
extends_by(m, d) ==
    LET pattern == word_tokens(m.ret.phrase)
        off     == IF d = 1 THEN Len(pattern) ELSE -1
        at(tid) == anchored_places(tid, pattern, m.ret.members[tid][1],
                                   m.ret.members[tid][2])
        tok(tid, x) == stream_of(tid).tokens[x + off]
        has(tid, x) == x + off \in 1..Len(stream_of(tid).tokens)
    IN  /\ Len(pattern) > 0
        /\ m.seed \in DOMAIN m.ret.members
        /\ \E x \in at(m.seed) :
              /\ has(m.seed, x)
              /\ \E tid \in DOMAIN m.ret.members \ {m.seed} :
                    \E y \in at(tid) :
                        has(tid, y) /\ tok(tid, y) = tok(m.seed, x)

\* C20: the parent phrase build_first_cu returns is maximal: no token can be
\* appended on its right or prepended on its left such that the longer
\* phrase still occurs, at the anchored place, in the seed and in another
\* matched transcript.
C20_ParentIsMaximal ==
    (mn.pc = "done" /\ mn.ret.kind = "dict") =>
        ~extends_by(mn, 1) /\ ~extends_by(mn, -1)

----------------------------------------------------------------------------
(* Errors of the miner *)

\* C21: when the seed transcript has fewer than k segments, build_first_cu
\* surfaces a dedicated error, which its caller can tell from the normal
\* return of a call that found no CU.
C21_ShortSeedIsAnError ==
    (mn.pc = "done" /\ mn.seed # 0 /\ Cardinality(SegsOf(mn.seed)) < mn.k) =>
        mn.ret.kind # "None"

\* C21 (amended): when the seed transcript has fewer than k segments,
\* build_first_cu raises nothing and returns None, the very value it returns
\* when no window of a long enough seed recurs; it has made no lookup.
C21_ShortSeedReturnsAsNoCU ==
    (mn.pc = "done" /\ mn.seed # 0 /\ Cardinality(SegsOf(mn.seed)) < mn.k) =>
        mn.ret = Ret("None") /\ mn.lookups = 0

\* a call on a seed of one segment or none has returned None with k = 2
C21_Witness ==
    /\ mn.pc = "done" /\ mn.seed # 0 /\ mn.k = 2
    /\ Cardinality(SegsOf(mn.seed)) < 2
    /\ mn.ret = Ret("None") /\ mn.lookups = 0

----------------------------------------------------------------------------
(* The segment-level expansion *)

\* the hit set a call carries holds the seed and another transcript
C22_hits_hold_seed ==
    mn.pc \in {"right", "left", "refine"} =>
        /\ mn.seed \in tids_from_hits(mn.cur_hits)
        /\ Cardinality(tids_from_hits(mn.cur_hits)) >= 2

\* a direction that has rejected an extension tries no further one: RIGHT
\* goes on to LEFT, LEFT to the refinement, and neither comes back
C22_stop_at_rejection ==
    /\ mn.pc = "left" => mn'.pc \in {"left", "refine", "done"}
    /\ mn.pc = "refine" => mn'.pc \in {"refine", "write", "done"}
    /\ (mn.pc \in {"right", "left"} /\ mn'.pc = mn.pc /\ mn' # mn) =>
          mn'.cur_hits = fts_hits(fts_windows,
                                  phrase_between(mn.seed, mn'.cur_s, mn'.cur_e))

\* C22: in the segment-level expansion (right, then left) an extension by one
\* seed segment is accepted only if the lookup of the extended phrase holds
\* the seed and at least one other transcript, and a direction stops at its
\* first rejection; so the hit set per_tid is computed from holds the seed.
C22_ExtensionKeepsSeed ==
    []C22_hits_hold_seed /\ [][C22_stop_at_rejection]_vars


----------------------------------------------------------------------------
(* The token-level refinement, pass by pass *)

\* the survivors and their anchors: active and anchors while branch() runs,
\* parent_live from the fallback restore on
survivors_now == IF rf.pc \in {"branch", "restore"}
                 THEN anchors_of(rf.st, rf.st.active) ELSE rf.live

\* refinement is under way or has returned, and it did not fall back to its
\* input
refining == rf.pc \in {"branch", "restore", "tighten", "finish", "returned"}
            /\ ~rf.fell

\* the tokens of transcript t over the anchor a
tokens_over(t, a) == phrase_at(rf.st.streams[t].tokens, a)

\* the child candidates the step under way appends
new_children == {rf'.st.children[x] :
                   x \in (Len(rf.st.children) + 1)..Len(rf'.st.children)}

\* C23: at every pass of the expansion loop in both directions, after the
\* fallback restore and after the final tighten, all surviving (active)
\* transcripts carry the same token sequence over their anchors, and it is
\* the seed's whenever the seed has an anchor; so the phrase of a child
\* candidate is the token sequence over the anchor of every member of its
\* group.
C23_active_agree ==
    refining =>
        /\ \A t, u \in DOMAIN survivors_now :
              tokens_over(t, survivors_now[t]) = tokens_over(u, survivors_now[u])
        /\ mn.seed \in DOMAIN rf.st.anchors =>
              /\ mn.seed \in DOMAIN survivors_now
              /\ \A t \in DOMAIN survivors_now :
                    tokens_over(t, survivors_now[t])
                      = tokens_over(mn.seed, survivors_now[mn.seed])

C23_child_phrase ==
    rf.pc = "branch" =>
        \A c \in new_children : \A t \in DOMAIN c.spans :
            c.phrase = tokens_over(t, rf.st.anchors[t])

C23_ActiveAgreeOnPhrase == []C23_active_agree /\ [][C23_child_phrase]_vars

\* the final tighten is over with the seed among 2 or more survivors, and a
\* child candidate of two members was recorded
C23_Witness ==
    /\ rf.pc = "finish" /\ ~rf.fell
    /\ mn.seed \in DOMAIN rf.live
    /\ Cardinality(DOMAIN rf.live) >= 2
    /\ \E x \in DOMAIN rf.st.children :
          Cardinality(DOMAIN rf.st.children[x].spans) >= 2

\* the transcripts whose anchor the pass under way changes
moved_in_branch == {t \in DOMAIN rf.st.anchors : rf'.st.anchors[t] # rf.st.anchors[t]}

moved_in_tighten == {t \in DOMAIN rf.live : rf'.live[t] # rf.live[t]}

\* the transcripts of S take one and the same token, each next to its anchor
\* a[t] in the current direction
advance_together(S, a, b) ==
    /\ Cardinality(S) >= 2
    /\ \A t \in S : b[t] = advance(rf.dir, a[t])
    /\ \A t, u \in S :
          rf.st.streams[t].tokens[proposed_idx(rf.dir, a[t])]
            = rf.st.streams[u].tokens[proposed_idx(rf.dir, a[u])]

\* C24: no anchor is advanced while fewer than 2 transcripts are active: in
\* a pass of the expansion loop and in a pass of the final tighten, the
\* anchors that change are those of 2 or more transcripts that were and stay
\* active, each moved by one token, the same for all; a pass of the expansion
\* loop that leaves fewer than 2 active stops its direction and changes no
\* anchor.
C24_pass ==
    /\ (rf.pc = "branch" /\ rf' # rf) =>
          /\ moved_in_branch # {} =>
                /\ moved_in_branch \subseteq rf.st.active \cap rf'.st.active
                /\ advance_together(moved_in_branch, rf.st.anchors, rf'.st.anchors)
          /\ Cardinality(rf'.st.active) < 2 =>
                /\ moved_in_branch = {}
                /\ rf'.dir # rf.dir \/ rf'.pc = "restore"
    /\ (rf.pc = "tighten" /\ rf' # rf /\ moved_in_tighten # {}) =>
          /\ moved_in_tighten = DOMAIN rf.live
          /\ advance_together(moved_in_tighten, rf.live, rf'.live)

C24_NoLoneAdvance == [][C24_pass]_vars

\* a pass of the expansion loop has advanced 2 or more active transcripts
\* past the seed phrase
C24_Witness ==
    /\ rf.pc = "branch"
    /\ Cardinality(rf.st.active) >= 2
    /\ \A t \in rf.st.active :
          rf.st.anchors[t][2] - rf.st.anchors[t][1] + 1 > Len(word_tokens(mn.phrase))

\* transcript t has no token next to its anchor in the current direction
exhausted_now(t) ==
    \/ proposed_idx(rf.dir, rf.st.anchors[t]) < 1
    \/ proposed_idx(rf.dir, rf.st.anchors[t]) > Len(rf.st.streams[t].tokens)

proposed_now(t) == rf.st.streams[t].tokens[proposed_idx(rf.dir, rf.st.anchors[t])]

\* the active transcripts that propose the token the seed proposes
with_the_seed ==
    {t \in rf.st.active : ~exhausted_now(t) /\ proposed_now(t) = proposed_now(mn.seed)}

\* the pass under way freezes t at its anchor and takes it out of active
frozen_in_place(t) ==
    /\ t \notin rf'.st.active
    /\ t \in DOMAIN rf'.st.frozen
    /\ rf'.st.frozen[t] = rf.st.anchors[t]
    /\ rf'.st.anchors[t] = rf.st.anchors[t]

\* C25: a pass of the expansion loop in which the seed is active and has a
\* next token freezes every exhausted transcript and every active transcript
\* that does not propose the seed's token, at its anchor, and takes it out of
\* active; the transcripts that propose the seed's token stay active, and if
\* any anchor moves then exactly theirs move, by one token in the current
\* direction. A pass in which the seed is exhausted stops the direction and
\* freezes, removes and advances nothing.
C25_pass ==
    (rf.pc = "branch" /\ rf' # rf /\ mn.seed \in rf.st.active) =>
        IF exhausted_now(mn.seed)
        THEN /\ rf'.st.active = rf.st.active
             /\ rf'.st.frozen = rf.st.frozen
             /\ rf'.st.anchors = rf.st.anchors
             /\ rf'.dir # rf.dir \/ rf'.pc = "restore"
        ELSE /\ \A t \in rf.st.active \ with_the_seed : frozen_in_place(t)
             /\ rf'.st.active = with_the_seed
             /\ \/ rf'.st.anchors = rf.st.anchors
                \/ \A t \in DOMAIN rf.st.anchors :
                      rf'.st.anchors[t] = IF t \in with_the_seed
                                          THEN advance(rf.dir, rf.st.anchors[t])
                                          ELSE rf.st.anchors[t]

C25_StepOfExpansion == [][C25_pass]_vars

\* a pass has frozen a transcript and advanced the seed with another one
C25_Witness ==
    /\ rf.pc = "branch"
    /\ DOMAIN rf.froze # {}
    /\ mn.seed \in rf.st.active
    /\ Cardinality(rf.st.active) >= 2
    /\ \A t \in rf.st.active :
          rf.st.anchors[t][2] - rf.st.anchors[t][1] + 1 > Len(word_tokens(mn.phrase))

\* C26: when the seed is a key of per_tid and every anchor was located, the
\* seed is never frozen and never leaves the active set: it is active in
\* every pass of both directions, it is a survivor after the fallback restore
\* and after the final tighten, and the parent phrase returned is the token
\* sequence over the seed's final anchor.
C26_SeedStaysActive ==
    (refining /\ mn.seed \in DOMAIN rf.st.anchors) =>
        /\ mn.seed \in rf.st.active
        /\ mn.seed \in DOMAIN survivors_now
        /\ mn.seed \notin DOMAIN rf.st.frozen
        /\ mn.seed \notin DOMAIN rf.froze
        /\ rf.pc = "returned" =>
              /\ rf.out.kind = "refined"
              /\ rf.out.phrase = tokens_over(mn.seed, rf.live[mn.seed])

\* refinement has returned a parent phrase longer than the seed phrase, read
\* from the seed, after a restore that brought back a frozen transcript
C26_Witness ==
    /\ rf.pc = "returned" /\ ~rf.fell
    /\ mn.seed \in DOMAIN rf.live
    /\ (DOMAIN rf.froze) \cap (DOMAIN rf.live) # {}
    /\ rf.out.kind = "refined"
    /\ Len(rf.out.phrase) > rf.st.anchors[mn.seed][2] - rf.st.anchors[mn.seed][1] + 1

\* C27: when fewer than 2 transcripts are active after RIGHT and LEFT, the
\* survivors are the transcripts that were active the last time 2 or more
\* were, each with the anchor it had then, and they are 2 or more; so it is
\* when every transcript but the seed ran out of tokens before the seed did.
\* With 2 or more active the restore changes nothing.
C27_restore ==
    rf.pc = "restore" =>
        IF Cardinality(rf.st.active) < 2
        THEN /\ rf'.st.active = rf.seen_active
             /\ \A t \in rf.seen_active : rf'.st.anchors[t] = rf.seen_anchors[t]
             /\ rf'.live = rf.seen_anchors
        ELSE /\ rf'.st.active = rf.st.active
             /\ rf'.st.anchors = rf.st.anchors

C27_two_survive ==
    (rf.pc \in {"tighten", "finish", "returned"} /\ ~rf.fell) =>
        Cardinality(DOMAIN rf.live) >= 2

C27_RestoreLastSnapshot == []C27_two_survive /\ [][C27_restore]_vars

\* the restore has put back the seed and the transcripts that ran out of
\* tokens before it, with anchors that had advanced past the seed phrase
C27_Witness ==
    /\ rf.pc = "tighten" /\ rf.dir = "RIGHT" /\ rf.live = rf.seen_anchors
    /\ DOMAIN rf.froze = (DOMAIN rf.st.anchors) \ {mn.seed}
    /\ DOMAIN rf.froze # {}
    /\ rf.st.children = <<>>
    /\ mn.seed \in DOMAIN rf.live
    /\ rf.live[mn.seed][2] - rf.live[mn.seed][1] + 1 > Len(word_tokens(mn.phrase))

\* the segment range of the anchor t had in the pass that froze it
frozen_range(t) == token_span_to_seg_span(rf.st.streams[t].t2s, rf.froze[t])

\* C28: every transcript a pass of the expansion froze (exhausted, or outside
\* the parent group) has a range in the parent's occurrence set, as returned
\* and as written to cu_occurrences, and that range is the segment range of
\* the anchor it had in the pass that froze it: no later pass, nor the
\* fallback restore, nor the final tighten changes it.
C28_FrozenRangeKept ==
    (rf.pc = "returned" /\ rf.out.kind = "refined") =>
        \A t \in DOMAIN rf.froze :
            /\ t \in DOMAIN rf.out.spans
            /\ rf.out.spans[t] = frozen_range(t)
            /\ (mn.pc = "done" /\ mn.ret.kind = "dict") =>
                  \A o \in DOMAIN cu_occurrences :
                      (o.cu_id = mn.ret.cu_id /\ o.transcript_id = t) =>
                          <<o.segment_start_id, o.segment_end_id>> = frozen_range(t)

\* the groups of the pass under way: the active transcripts by proposed token
groups_now ==
    {{u \in rf.st.active : ~exhausted_now(u) /\ proposed_now(u) = proposed_now(t)} :
        t \in {v \in rf.st.active : ~exhausted_now(v)}}

other_groups == {G \in groups_now : mn.seed \notin G}

\* the pass under way records a child candidate for the group G
recorded(G) == \E c \in new_children : DOMAIN c.spans = G

\* the groups the loop comes to before G: a group is created when its first
\* transcript is met
groups_before(G) == {H \in other_groups : SetMin(H) < SetMin(G)}

\* C29: in a pass of the expansion loop that comes to its groups, a child
\* candidate is recorded for a group other than the parent's exactly when the
\* group has min_child_size members or more and fewer than
\* max_children_per_side candidates were recorded for the groups before it in
\* this pass; the spans of a candidate are those of the members of its group
\* and no others, each the segment range of the member's anchor; one group,
\* one candidate, and no more than max_children_per_side of them in a pass.
C29_pass ==
    (rf.pc = "groups" /\ rf' # rf) =>
        /\ \A G \in other_groups :
              recorded(G) <=>
                  /\ Cardinality(G) >= rf.min_child_size
                  /\ Cardinality({H \in groups_before(G) : recorded(H)})
                        < rf.max_children_per_side
        /\ \A c \in new_children :
              /\ DOMAIN c.spans \in other_groups
              /\ \A t \in DOMAIN c.spans :
                    c.spans[t] = token_span_to_seg_span(rf.st.streams[t].t2s,
                                                        rf.st.anchors[t])
        /\ Len(rf'.st.children) - Len(rf.st.children)
              = Cardinality({G \in other_groups : recorded(G)})
        /\ Len(rf'.st.children) - Len(rf.st.children) <= rf.max_children_per_side

C29_ChildCandidates == [][C29_pass]_vars

\* a pass has recorded max_children_per_side candidates and left out a group
\* for the cap and a group for its size
C29_Witness ==
    /\ rf.pc = "spawned"
    /\ rf.min_child_size = 2
    /\ Len(rf.st.children) = rf.max_children_per_side
    /\ \E t, u \in DOMAIN rf.st.frozen :
          /\ \A x \in DOMAIN rf.st.children :
                t \notin DOMAIN rf.st.children[x].spans
                /\ u \notin DOMAIN rf.st.children[x].spans
          /\ Cardinality({v \in DOMAIN rf.st.frozen :
                rf.st.streams[v].tokens[3] = rf.st.streams[t].tokens[3]}) >= 2
          /\ Cardinality({v \in DOMAIN rf.st.frozen :
                rf.st.streams[v].tokens[3] = rf.st.streams[u].tokens[3]}) = 1

----------------------------------------------------------------------------
(* Parent and children in the tables *)

\* the transcripts of the occurrences of CU id
occurrence_tids(id) ==
    {o.transcript_id : o \in {p \in DOMAIN cu_occurrences : p.cu_id = id}}

\* the ids of the children the call that just returned has written
children_of_run ==
    (mn.ret.cu_id + 1)..(mn.ret.cu_id + mn.ret.children_created)

\* C30: when build_first_cu has returned its summary, the transcripts of the
\* occurrences of each child CU it wrote are transcripts of the occurrences
\* of the parent CU, and not all of them.
C30_ChildNarrowerThanParent ==
    (mn.pc = "done" /\ mn.ret.kind = "dict") =>
        \A id \in children_of_run :
            /\ id \in {c.id : c \in canonical_units}
            /\ occurrence_tids(id) \subseteq occurrence_tids(mn.ret.cu_id)
            /\ occurrence_tids(id) # occurrence_tids(mn.ret.cu_id)

\* a call has written a parent of three transcripts and a child of two
C30_Witness ==
    /\ mn.pc = "done" /\ mn.ret.kind = "dict"
    /\ mn.ret.children_created >= 1
    /\ Cardinality(occurrence_tids(mn.ret.cu_id)) = 3
    /\ \E id \in children_of_run : Cardinality(occurrence_tids(id)) = 2

----------------------------------------------------------------------------
(* What refinement hands to the write *)

\* the number of rows of cu_occurrences for CU id and transcript t
rows_of(id, t) ==
    LET rows == {o \in DOMAIN cu_occurrences : o.cu_id = id /\ o.transcript_id = t}
        RECURSIVE count(_)
        count(S) == IF S = {} THEN 0
                    ELSE LET o == CHOOSE x \in S : TRUE
                         IN  cu_occurrences[o] + count(S \ {o})
    IN  count(rows)

\* C31: when refine_with_branching returns, its parent result has an entry
\* for every transcript of per_tid and for no other: after the restore each
\* of them is a survivor or a frozen outlier; and when build_first_cu has
\* committed, cu_occurrences holds one row of the parent for each of them.
C31_OneEntryPerTranscript ==
    /\ (refining /\ rf.pc \in {"tighten", "finish", "returned"}) =>
          (DOMAIN rf.live) \cup (DOMAIN rf.st.frozen) = DOMAIN rf.st.anchors
    /\ (rf.pc = "returned" /\ mn.pc = "write") =>
          /\ DOMAIN rf.out.spans = tids_from_hits(mn.cur_hits)
          /\ mn.ret.members = rf.out.spans
    /\ (rf.pc = "returned" /\ mn.pc = "done" /\ mn.ret.kind = "dict") =>
          /\ DOMAIN mn.ret.members = DOMAIN rf.out.spans
          /\ \A t \in TIDS :
                rows_of(mn.ret.cu_id, t) = IF t \in DOMAIN rf.out.spans THEN 1 ELSE 0

\* a parent of two survivors and a frozen outlier is committed
C31_Witness ==
    /\ rf.pc = "returned" /\ ~rf.fell
    /\ mn.pc = "done" /\ mn.ret.kind = "dict"
    /\ Cardinality(DOMAIN rf.live) = 2
    /\ (DOMAIN rf.st.frozen) \ (DOMAIN rf.live) # {}
    /\ \A t \in DOMAIN rf.st.anchors : rows_of(mn.ret.cu_id, t) = 1

\* the tokenized seed window is nowhere in the token stream of some
\* transcript of per_tid
pattern_missing ==
    \E t \in tids_from_hits(mn.cur_hits) :
        \A x \in 1..Len(stream_of(t).tokens) :
            ~OccursAt(word_tokens(mn.phrase), stream_of(t).tokens, x)

\* C32: when the tokenized seed window does not occur in the token stream of
\* some transcript of per_tid, refinement is given up and build_first_cu goes
\* on to write the segment-level result: the parent's ranges are per_tid's,
\* the phrase is the seed phrase, there is no child, and after the commit the
\* CU row and one occurrence row for each range of per_tid are in the tables.
C32_FallbackToSegments ==
    /\ (mn.pc = "refine" /\ rf.pc = "finish") => (pattern_missing => rf.fell)
    /\ (mn.pc = "write" /\ rf.pc = "returned" /\ pattern_missing) =>
          /\ rf.fell
          /\ mn.ret.kind = "dict"
          /\ mn.ret.members = per_tid_of(mn.cur_hits)
          /\ mn.ret.phrase = mn.phrase
          /\ mn.ret.children_created = 0
          /\ \A x \in DOMAIN mn.todo : mn.todo[x].kind = "occ"
    /\ (rf.pc = "returned" /\ rf.fell) =>
          /\ mn.pc \in {"write", "done"}
          /\ mn.ret.kind \in {"dict", "failed"}
          /\ (mn.pc = "done" /\ mn.ret.kind = "dict") =>
                /\ cu_row(mn.ret.cu_id, mn.ret.phrase) \in canonical_units
                /\ mn.ret.children_created = 0
                /\ {o \in DOMAIN cu_occurrences : o.cu_id = mn.ret.cu_id}
                     = {[cu_id |-> mn.ret.cu_id, transcript_id |-> t,
                         segment_start_id |-> rf.out.spans[t][1],
                         segment_end_id |-> rf.out.spans[t][2]] :
                           t \in DOMAIN rf.out.spans}
                /\ \A t \in DOMAIN rf.out.spans : rows_of(mn.ret.cu_id, t) = 1

\* a segment-level result of two transcripts is committed after refinement
\* was given up
C32_Witness ==
    /\ rf.pc = "returned" /\ rf.fell
    /\ mn.pc = "done" /\ mn.ret.kind = "dict"
    /\ Cardinality(DOMAIN rf.out.spans) >= 2
    /\ cu_row(mn.ret.cu_id, mn.ret.phrase) \in canonical_units
    /\ \A t \in DOMAIN rf.out.spans : rows_of(mn.ret.cu_id, t) = 1

----------------------------------------------------------------------------
(* The candidate phrases *)

\* the position of segment id in the seed's (start_ms, id) order
position_of(seed_tid, id) ==
    CHOOSE x \in DOMAIN seed_ids(seed_tid) : seed_ids(seed_tid)[x] = id

\* the space-joined text of the seed's segments at positions lo..hi of its
\* (start_ms, id) order
text_of_positions(seed_tid, lo, hi) ==
    text_join(SubSeq1(fetch_ordered_segments(seed_tid), lo, hi))

\* C33: the phrase build_first_cu looks up for window i of the seed is the
\* space-joined text of the k segments at positions i..i+k-1 of the seed's
\* (start_ms, id) order, and the phrase of an extension to the RIGHT (to the
\* LEFT) is the text of the segments at positions i..j (j..the position of
\* cur_e) of that order, whatever ids and start_ms the seed's segments have.
C33_CandidateIsTheWindow ==
    /\ mn.pc = "scan" =>
          seed_phrase_for(mn.seed, mn.i, mn.i + mn.k - 1)
            = text_of_positions(mn.seed, mn.i, mn.i + mn.k - 1)
    /\ mn.pc = "right" =>
          seed_phrase_for(mn.seed, mn.i, mn.j)
            = text_of_positions(mn.seed, mn.i, mn.j)
    /\ mn.pc = "left" =>
          phrase_between(mn.seed, seed_ids(mn.seed)[mn.j], mn.cur_e)
            = text_of_positions(mn.seed, mn.j, position_of(mn.seed, mn.cur_e))

----------------------------------------------------------------------------
(* The order of the two directions *)

\* C34: the token-level expansion makes all its passes to the RIGHT before
\* its first pass to the LEFT, and LEFT starts with the transcripts that no
\* pass to the RIGHT froze, and only them; a frozen transcript is never
\* active again while the expansion runs, so it proposes no token, is in no
\* group and in no child candidate of a later pass, and its anchor stays.
C34_frozen_stay_out ==
    rf.pc = "branch" => (DOMAIN rf.froze) \cap rf.st.active = {}

C34_right_then_left ==
    /\ (rf.pc = "idle" /\ rf'.pc = "branch") => rf'.dir = "RIGHT"
    /\ (rf.pc = "branch" /\ rf.dir = "LEFT") => rf'.dir = "LEFT"
    /\ (rf.pc = "branch" /\ rf' # rf) =>
          /\ rf'.st.active \subseteq rf.st.active
          /\ \A c \in new_children : (DOMAIN c.spans) \cap (DOMAIN rf.froze) = {}
          /\ \A t \in DOMAIN rf.froze : rf'.st.anchors[t] = rf.st.anchors[t]
          /\ (rf.dir = "RIGHT" /\ rf'.dir = "LEFT") =>
                /\ rf'.pc = "branch"
                /\ rf'.st.active = (DOMAIN rf'.st.anchors) \ (DOMAIN rf'.froze)

C34_RightBeforeLeft == []C34_frozen_stay_out /\ [][C34_right_then_left]_vars

\* LEFT is under way with 2 transcripts, a third was frozen to the RIGHT
C34_Witness ==
    /\ rf.pc = "branch" /\ rf.dir = "LEFT"
    /\ DOMAIN rf.froze # {}
    /\ Cardinality(rf.st.active) >= 2

----------------------------------------------------------------------------
(* The final tighten *)

\* every survivor has a token next to its anchor in the current direction,
\* and it is one and the same token
all_propose_one_token ==
    /\ \A t \in DOMAIN rf.live :
          /\ proposed_idx(rf.dir, rf.live[t]) >= 1
          /\ proposed_idx(rf.dir, rf.live[t]) <= Len(rf.st.streams[t].tokens)
    /\ \A t, u \in DOMAIN rf.live :
          rf.st.streams[t].tokens[proposed_idx(rf.dir, rf.live[t])]
            = rf.st.streams[u].tokens[proposed_idx(rf.dir, rf.live[u])]

\* C35: the final tighten touches the anchors of the survivors only, and
\* only when they are 2 or more: to the RIGHT and then to the LEFT, it moves
\* every survivor by one token as long as each has a next (previous) token
\* and these are all equal, and goes on to the other direction, or ends, as
\* soon as they are not; a single survivor keeps its anchor.
C35_pass ==
    (rf.pc = "tighten" /\ rf' # rf) =>
        /\ rf'.st = rf.st
        /\ DOMAIN rf'.live = DOMAIN rf.live
        /\ IF Cardinality(DOMAIN rf.live) >= 2 /\ all_propose_one_token
           THEN /\ \A t \in DOMAIN rf.live :
                      rf'.live[t] = advance(rf.dir, rf.live[t])
                /\ rf'.dir = rf.dir /\ rf'.pc = "tighten"
           ELSE /\ rf'.live = rf.live
                /\ \/ rf.dir = "RIGHT" /\ rf'.dir = "LEFT" /\ rf'.pc = "tighten"
                   \/ rf.dir = "LEFT" /\ rf'.dir = "LEFT" /\ rf'.pc = "finish"

C35_TightenSurvivorsOnly == [][C35_pass]_vars

\* the tighten is over: a single survivor with a token on either side of its
\* anchor has kept it
C35_Witness ==
    /\ rf.pc = "finish" /\ ~rf.fell
    /\ Cardinality(DOMAIN rf.live) = 1
    /\ \A t \in DOMAIN rf.live :
          /\ rf.live[t] = rf.st.anchors[t]
          /\ rf.live[t][2] < Len(rf.st.streams[t].tokens)
          /\ rf.live[t][1] > 1

----------------------------------------------------------------------------
(* From anchors to rows *)

\* the anchor refinement ends with for transcript t: that of parent_live for
\* a survivor, the frozen one otherwise
final_anchor(t) == IF t \in DOMAIN rf.live THEN rf.live[t] ELSE rf.st.frozen[t]

\* the segment ids under the tokens lo..hi of transcript t
segs_under(t, a) == {rf.st.streams[t].t2s[x] : x \in a[1]..a[2]}

\* C36: when refinement has returned a refined parent, the range of each of
\* its transcripts is (minimum, maximum) of the segment ids under the tokens
\* of its final anchor, and the parent phrase is the sequence of the seed's
\* tokens over the seed's final anchor; the rows build_first_cu commits carry
\* these ranges and this phrase.
C36_RangesFromAnchors ==
    (rf.pc = "returned" /\ rf.out.kind = "refined") =>
        /\ \A t \in DOMAIN rf.out.spans :
              /\ rf.out.spans[t][1] = SetMin(segs_under(t, final_anchor(t)))
              /\ rf.out.spans[t][2] = SetMax(segs_under(t, final_anchor(t)))
        /\ rf.out.phrase
             = [x \in 1..(rf.live[mn.seed][2] - rf.live[mn.seed][1] + 1) |->
                  rf.st.streams[mn.seed].tokens[rf.live[mn.seed][1] + x - 1]]
        /\ (mn.pc = "done" /\ mn.ret.kind = "dict") =>
              /\ cu_row(mn.ret.cu_id, rf.out.phrase) \in canonical_units
              /\ \A t \in DOMAIN rf.out.spans :
                    [cu_id |-> mn.ret.cu_id, transcript_id |-> t,
                     segment_start_id |-> SetMin(segs_under(t, final_anchor(t))),
                     segment_end_id |-> SetMax(segs_under(t, final_anchor(t)))]
                      \in DOMAIN cu_occurrences

\* a refined parent is committed whose seed anchor the final tighten moved
C36_Witness ==
    /\ rf.pc = "returned" /\ rf.out.kind = "refined"
    /\ mn.pc = "done" /\ mn.ret.kind = "dict"
    /\ rf.live[mn.seed] # rf.st.anchors[mn.seed]
    /\ cu_row(mn.ret.cu_id, rf.out.phrase) \in canonical_units
    /\ Cardinality(segs_under(mn.seed, rf.live[mn.seed])) >= 2

----------------------------------------------------------------------------
(* The children returned *)

\* the (spans, phrase) pair of a candidate or of the parent
pair_of(c) == <<c.spans, c.phrase>>

\* the place of the first candidate with the pair of c
first_place(c) ==
    SetMin({x \in DOMAIN rf.st.children : pair_of(rf.st.children[x]) = pair_of(c)})

\* C37: the children refine_with_branching returns have pairwise distinct
\* (spans, phrase) pairs, none of them the parent's; they are candidates, in
\* the order of the candidates; and a candidate with non-empty spans whose
\* pair is not the parent's is among them (once: its later copies are the
\* only ones dropped). build_first_cu writes one CU for each of them.
C37_ChildrenDistinct ==
    (rf.pc = "returned" /\ rf.out.kind = "refined") =>
        /\ \A x, y \in DOMAIN rf.out.children :
              x # y => pair_of(rf.out.children[x]) # pair_of(rf.out.children[y])
        /\ \A x \in DOMAIN rf.out.children :
              /\ pair_of(rf.out.children[x]) # pair_of(rf.out)
              /\ \E y \in DOMAIN rf.st.children :
                    rf.st.children[y] = rf.out.children[x]
        /\ \A x, y \in DOMAIN rf.out.children :
              x < y => first_place(rf.out.children[x]) < first_place(rf.out.children[y])
        /\ \A y \in DOMAIN rf.st.children :
              (/\ DOMAIN rf.st.children[y].spans # {}
               /\ pair_of(rf.st.children[y]) # pair_of(rf.out)) =>
                  \E x \in DOMAIN rf.out.children :
                      rf.out.children[x] = rf.st.children[y]
        /\ (mn.pc = "done" /\ mn.ret.kind = "dict") =>
              /\ mn.ret.children_created = Len(rf.out.children)
              /\ \A x \in DOMAIN rf.out.children :
                    cu_row(mn.ret.cu_id + x, rf.out.children[x].phrase)
                      \in canonical_units

\* of three candidates one was kept, one was a copy of it and one had the
\* pair of the parent
C37_Witness ==
    /\ rf.pc = "returned" /\ rf.out.kind = "refined"
    /\ Len(rf.st.children) = 3
    /\ Len(rf.out.children) = 1
    /\ \E x, y, z \in DOMAIN rf.st.children :
          /\ x < y
          /\ rf.st.children[x] = rf.st.children[y]
          /\ DOMAIN rf.st.children[x].spans # {}
          /\ pair_of(rf.st.children[x]) # pair_of(rf.out)
          /\ pair_of(rf.st.children[z]) = pair_of(rf.out)

----------------------------------------------------------------------------
(* The anchors *)

\* the anchors refine_with_branching located for the call under way
located ==
    refine_start(per_tid_of(mn.cur_hits), word_tokens(mn.phrase)).anchors

\* between the location of the anchors and the return
anchored_now == rf.pc \in {"branch", "restore", "tighten", "finish"} /\ ~rf.fell

\* anchor a lies in the token stream of t and holds the located occurrence
anchor_in_order(t, a) ==
    /\ 1 <= a[1] /\ a[1] <= a[2]
    /\ a[2] <= Len(rf.st.streams[t].tokens)
    /\ a[1] <= located[t][1] /\ located[t][2] <= a[2]

\* anchor a with one more token on the side of direction
one_more(direction, a) ==
    IF direction = "RIGHT" THEN <<a[1], a[2] + 1>> ELSE <<a[1] - 1, a[2]>>

C38_step ==
    (anchored_now /\ rf'.pc \in {"branch", "restore", "tighten", "finish"}) =>
        /\ \A t \in DOMAIN rf.st.anchors :
              \/ rf'.st.anchors[t] = rf.st.anchors[t]
              \/ /\ rf.pc = "branch"
                 /\ rf'.st.anchors[t] = one_more(rf.dir, rf.st.anchors[t])
        /\ rf.pc = "restore" =>
              \A t \in DOMAIN rf'.live : rf'.live[t] = rf.st.anchors[t]
        /\ rf.pc = "tighten" =>
              \A t \in DOMAIN rf.live :
                  \/ rf'.live[t] = rf.live[t]
                  \/ rf'.live[t] = one_more(rf.dir, rf.live[t])

\* C38: while refine_with_branching runs, every anchor (of an active or a
\* frozen transcript, and of a survivor in the final tighten) has
\* first token <= lo <= hi <= last token of its transcript's stream and holds
\* the occurrence of the seed pattern located at the start, which reads as the
\* pattern; a pass changes an anchor only to [lo, hi + 1] going RIGHT or to
\* [lo - 1, hi] going LEFT.
C38_AnchorsInBounds ==
    /\ [](anchored_now =>
            /\ \A t \in DOMAIN rf.st.anchors :
                  /\ anchor_in_order(t, rf.st.anchors[t])
                  /\ phrase_at(rf.st.streams[t].tokens, located[t])
                       = word_tokens(mn.phrase)
            /\ \A t \in DOMAIN rf.st.frozen :
                  anchor_in_order(t, rf.st.frozen[t])
            /\ rf.pc \in {"tighten", "finish"} =>
                  \A t \in DOMAIN rf.live : anchor_in_order(t, rf.live[t]))
    /\ [][C38_step]_vars

\* at the end of the final tighten the anchor of a survivor has grown LEFT
\* to the first token of its stream, and an anchor ends at the last token of
\* its stream
C38_Witness ==
    /\ anchored_now
    /\ rf.pc = "finish"
    /\ \E t \in DOMAIN rf.live :
          /\ rf.live[t][1] < located[t][1]
          /\ rf.live[t][1] = 1
    /\ \E t \in DOMAIN rf.st.anchors :
          rf.st.anchors[t][2] = Len(rf.st.streams[t].tokens)

----------------------------------------------------------------------------
(* Termination *)

\* a pass that stays in its loop takes one more segment, token or insert, and
\* stays inside the seed, the stream or the queue
C39_progress ==
    /\ (mn.pc = "scan" /\ mn'.pc = "scan") =>
          /\ mn'.i = mn.i + 1
          /\ mn'.i <= Len(seed_ids(mn.seed)) - mn.k + 1
    /\ (mn.pc = "right" /\ mn'.pc = "right") =>
          /\ mn'.j = mn.j + 1
          /\ mn'.j <= Len(seed_ids(mn.seed))
    /\ (mn.pc = "left" /\ mn'.pc = "left") =>
          /\ mn'.j = mn.j - 1
          /\ mn'.j >= 1
    /\ (rf.pc = "branch" /\ rf'.pc = "branch" /\ rf'.dir = rf.dir) =>
          /\ rf'.st.active # {}
          /\ \A t \in rf'.st.active :
                /\ rf'.st.anchors[t] = one_more(rf.dir, rf.st.anchors[t])
                /\ 1 <= rf'.st.anchors[t][1]
                /\ rf'.st.anchors[t][2] <= Len(rf.st.streams[t].tokens)
    /\ (rf.pc = "tighten" /\ rf'.pc = "tighten" /\ rf'.dir = rf.dir) =>
          /\ DOMAIN rf.live # {}
          /\ \A t \in DOMAIN rf.live :
                /\ rf'.live[t] = one_more(rf.dir, rf.live[t])
                /\ 1 <= rf'.live[t][1]
                /\ rf'.live[t][2] <= Len(rf.st.streams[t].tokens)
    /\ (mn.pc = "write" /\ mn'.pc = "write") =>
          Len(mn'.todo) = Len(mn.todo) - 1

\* C39: every call of build_first_cu ends (it returns or raises): the
\* windows loop, the RIGHT and LEFT segment loops, both directions of the
\* token loop, the final tighten and the inserts each end, because a pass
\* that does not leave its loop takes one more segment or token of a finite
\* transcript.
C39_Terminates ==
    /\ (mn.pc # "idle") ~> (mn.pc = "done")
    /\ [][C39_progress]_vars

\* a call has returned a CU after its segment loops made 3 or more lookups,
\* a pass of the token loop froze a transcript and the final tighten moved
\* an anchor
C39_Witness ==
    /\ mn.pc = "done"
    /\ mn.ret.kind = "dict"
    /\ mn.lookups >= 3
    /\ rf.pc = "returned" /\ ~rf.fell
    /\ DOMAIN rf.st.frozen # {}
    /\ \E t \in DOMAIN rf.live : rf.live[t] # rf.st.anchors[t]
====
